---- MODULE Spec2Model ----
(***************************************************************************)
(* Event-sourced account ledger of appsync-es: the repository functions    *)
(* (createAccount, creditAccount, debitAccount, getAccountEvents), the     *)
(* aggregate functions (create, credit, debit, get) and the table they     *)
(* share.  Every await on the table is one atomic step of a caller; the    *)
(* code between two awaits is local to the caller and belongs to the step  *)
(* that precedes the next await.                                           *)
(*                                                                         *)
(* Strings built by template literals are kept structured: the partition   *)
(* key `${itemType}#${id}` is the pair <<itemType, id>>, the sort key      *)
(* `${itemType}#${version}` is the pair <<itemType, decimal digits>>, and  *)
(* the table orders sort keys of one partition as strings (byte-wise).     *)
(* Timestamps are left out: no operation reads them.                       *)
(***************************************************************************)
EXTENDS Integers, Sequences, FiniteSets, TLC

(***************************************************************************)
(* Bounds and input sets                                                   *)
(***************************************************************************)
Callers == {"c1", "c2"}
Ids == {"a"}
Auth0Ids == {"u1"}
Emails == {"e1"}
Amounts == {-1, 1}
EmailsV1 == {"e1", "e2"}
RaceAmounts == {1, 2}
MaxEvents == 12
MaxDebits == 1
MaxNonPositive == 1
MaxWideEvents == 4
MaxSince == 9
BuildAmounts == {1}
BuildCallers == {"c1"}
ListIds == {"a", "b", "c", "d"}
PageSizes == {3}
ListEmails == {"e1", "e2", "e3"}
MaxListMutations == 1
MaxStreamRecords == 5
MaxHistory == 8

(***************************************************************************)
(* Program constants                                                       *)
(***************************************************************************)
QueryLimit == 10
SnapshotThreshold == 9
InitialTokens == 1
BatchSize == 10

VARIABLES table, pc, op, accountDetails, transaction, outcome, returned, rivals,
          ledger, calls, race, stream

vars == <<table, pc, op, accountDetails, transaction, outcome, returned, rivals,
          ledger, calls, race, stream>>

(***************************************************************************)
(* Values                                                                  *)
(***************************************************************************)
Null == [found |-> FALSE]
NoOp == [name |-> "none", id |-> "", amount |-> 0]
NoRace == [active |-> FALSE, id |-> "", amount |-> [c \in Callers |-> 0],
           availableTokens |-> 0, credited |-> 0]
NoInvocation == [from |-> 0, size |-> 0, request |-> <<>>, result |-> "none"]
NoStream == [feed |-> <<>>, checkpoint |-> 0, batch |-> 0, bus |-> {},
             last |-> NoInvocation]

(***************************************************************************)
(* String conversion and string order                                      *)
(***************************************************************************)
RECURSIVE Digits(_)
Digits(n) == IF n < 10 THEN <<n>> ELSE Digits(n \div 10) \o <<n % 10>>

RECURSIVE StrLess(_, _)
StrLess(s, t) ==
    IF t = <<>> THEN FALSE
    ELSE IF s = <<>> THEN TRUE
    ELSE IF Head(s) # Head(t) THEN Head(s) < Head(t)
    ELSE StrLess(Tail(s), Tail(t))

(***************************************************************************)
(* Item formatting                                                         *)
(***************************************************************************)
formatEventItem(item) ==
    item @@ [pk |-> <<"event", item.id>>, sk |-> <<"event", Digits(item.version)>>]

formatCreateItem(item) ==
    item @@ [pk |-> <<"event", item.id>>,
             sk |-> <<"event", Digits(item.version)>>,
             gsi_pk |-> <<"account">>,
             gsi_sk |-> <<item.email, item.auth0Id, item.id>>]

formatAccountListItem(item) ==
    item @@ [pk |-> <<"account">>, sk |-> <<"account", item.email>>]

(***************************************************************************)
(* The table: transactional conditional put, ordered query                 *)
(***************************************************************************)
Put(item, attr) == [Item |-> item, ConditionExpression |-> attr]

ItemAt(tbl, pk, sk) == {i \in tbl : i.pk = pk /\ i.sk = sk}

\* No condition is ever evaluated.
ConditionHoldsAlways(tbl, put) == TRUE

ConditionHolds(tbl, put) ==
    \/ put.ConditionExpression = ""
    \/ \A i \in ItemAt(tbl, put.Item.pk, put.Item.sk) :
          put.ConditionExpression \notin DOMAIN i

Range(seq) == {seq[k] : k \in 1..Len(seq)}

TransactWriteAccepted(tbl, txn) == \A put \in Range(txn) : ConditionHolds(tbl, put)

\* Each put on its own, as a batch of independent conditional puts.
TransactWritePerItem(tbl, txn) ==
    LET passing == {put \in Range(txn) : ConditionHolds(tbl, put)}
    IN  {i \in tbl : \A put \in passing :
                         ~(i.pk = put.Item.pk /\ i.sk = put.Item.sk)}
        \cup {put.Item : put \in passing}

TransactWrite(tbl, txn) ==
    IF TransactWriteAccepted(tbl, txn)
    THEN {i \in tbl : \A put \in Range(txn) :
                         ~(i.pk = put.Item.pk /\ i.sk = put.Item.sk)}
         \cup {put.Item : put \in Range(txn)}
    ELSE tbl

\* The items of one partition in descending order of the sort key, compared as
\* strings: the item at position k has k - 1 items above it.
SortDescending(items) ==
    [k \in 1..Cardinality(items) |->
        CHOOSE i \in items :
            Cardinality({j \in items : StrLess(i.sk[2], j.sk[2])}) = k - 1]

\* A page three items shorter than asked for.
TakeShort(seq, n) == SubSeq(seq, 1, IF Len(seq) < n - 3 THEN Len(seq) ELSE n - 3)

Take(seq, n) == SubSeq(seq, 1, IF Len(seq) < n THEN Len(seq) ELSE n)

getAccountEvents(tbl, id) ==
    Take(SortDescending({i \in tbl : i.pk = <<"event", id>>}), QueryLimit)

(***************************************************************************)
(* Repository: the transactions                                            *)
(***************************************************************************)
\* The initial snapshot without the creation grant.
createAccountEmptySnapshot(createEvent) ==
    LET accountSnapshot ==
            [version |-> 2, type |-> "SNAPSHOT", availableTokens |-> 0] @@ createEvent
    IN  << Put(formatCreateItem(createEvent), "pk"),
           Put(formatEventItem(accountSnapshot), "sk") >>

createAccount(createEvent) ==
    LET accountSnapshot == [version |-> 2, type |-> "SNAPSHOT"] @@ createEvent
    IN  << Put(formatCreateItem(createEvent), "pk"),
           Put(formatEventItem(accountSnapshot), "sk") >>

\* The three puts of the earlier revision without their conditions.
createAccountWithListItemUnconditioned(createEvent) ==
    LET accountSnapshot == [version |-> 2, type |-> "SNAPSHOT"] @@ createEvent
        accountListItem == [auth0Id |-> createEvent.auth0Id,
                            email |-> createEvent.email,
                            id |-> createEvent.id]
    IN  << Put(formatEventItem(createEvent), ""),
           Put(formatEventItem(accountSnapshot), ""),
           Put(formatAccountListItem(accountListItem), "") >>

\* The earlier revision of createAccount: the account list is an item of its
\* own, put without a condition in the same transaction.
createAccountWithListItem(createEvent) ==
    LET accountSnapshot == [version |-> 2, type |-> "SNAPSHOT"] @@ createEvent
        accountListItem == [auth0Id |-> createEvent.auth0Id,
                            email |-> createEvent.email,
                            id |-> createEvent.id]
    IN  << Put(formatEventItem(createEvent), "id"),
           Put(formatEventItem(accountSnapshot), "version"),
           Put(formatAccountListItem(accountListItem), "") >>

creditAccount(creditEvent, snapshotEvent) ==
    [k \in 1..Len(snapshotEvent) |-> Put(formatEventItem(snapshotEvent[k]), "sk")]
    \o << Put(formatEventItem(creditEvent), "sk") >>

debitAccount(debitEvent, snapshotEvent) ==
    [k \in 1..Len(snapshotEvent) |-> Put(formatEventItem(snapshotEvent[k]), "sk")]
    \o << Put(formatEventItem(debitEvent), "sk") >>

(***************************************************************************)
(* Aggregate: reconstruction                                               *)
(***************************************************************************)
findIndex(items, type) ==
    LET hits == {k \in 1..Len(items) : items[k].type = type}
    IN  IF hits = {} THEN 0 ELSE CHOOSE k \in hits : \A m \in hits : k <= m

reverse(seq) == [k \in 1..Len(seq) |-> seq[Len(seq) + 1 - k]]

amountOf(item) == IF "amount" \in DOMAIN item THEN item.amount ELSE 0

\* The accumulator replaced by the item, with the balance carried over.
reducerOfItem(state, item) ==
    [version |-> item.version,
     availableTokens |->
         IF item.type = "DEBITED" THEN state.availableTokens - amountOf(item)
         ELSE IF item.type = "CREDITED" THEN state.availableTokens + amountOf(item)
         ELSE state.availableTokens] @@ item

reducer(state, item) ==
    [state EXCEPT
        !.availableTokens =
            IF item.type = "DEBITED" THEN @ - amountOf(item)
            ELSE IF item.type = "CREDITED" THEN @ + amountOf(item)
            ELSE @,
        !.version = item.version]

\* reduce(items, k, state): the accumulator after the first k items.
RECURSIVE reduce(_, _, _)
reduce(items, k, state) ==
    IF k = 0 THEN state ELSE reducer(reduce(items, k - 1, state), items[k])

\* The body of get after the query: the newest snapshot of the page and the
\* fold of the items above it.
getFromItems(items) ==
    LET snapshotIdx == findIndex(items, "SNAPSHOT")
    IN  IF snapshotIdx = 0 THEN Null
        ELSE LET snapshot == items[snapshotIdx]
                 itemsSinceSnapshot == reverse(SubSeq(items, 1, snapshotIdx - 1))
             IN  [found |-> TRUE,
                  account |-> reduce(itemsSinceSnapshot, Len(itemsSinceSnapshot), snapshot),
                  snapshot |-> snapshot,
                  itemsSinceSnapshot |-> itemsSinceSnapshot]

\* A reconstruction that reports the highest stored version and no item since
\* the snapshot.
getNothingSince(tbl, id) ==
    LET events == {i \in tbl : i.pk = <<"event", id>>}
        snapshots == {i \in events : i.type = "SNAPSHOT"}
    IN  IF snapshots = {} THEN Null
        ELSE LET snapshot == CHOOSE i \in snapshots : TRUE
                 top == CHOOSE i \in events : \A j \in events : j.version <= i.version
             IN  [found |-> TRUE,
                  account |-> [snapshot EXCEPT !.version = top.version],
                  snapshot |-> snapshot,
                  itemsSinceSnapshot |-> <<>>]

get(tbl, id) ==
    CHOOSE details \in {getFromItems(items) : items \in {getAccountEvents(tbl, id)}} : TRUE

(***************************************************************************)
(* Aggregate: the events an operation builds                               *)
(***************************************************************************)
snapshotEventOf(details) ==
    IF Len(details.itemsSinceSnapshot) >= SnapshotThreshold
    THEN << [version |-> details.account.version + 1, type |-> "SNAPSHOT"]
            @@ details.account >>
    ELSE <<>>

\* Every event a mutation builds is typed as a creation.
mutationEventAsCreated(type, id, amount, details) ==
    [id |-> id,
     version |-> details.account.version + Len(snapshotEventOf(details)) + 1,
     type |-> "CREATED",
     amount |-> amount]

\* The version counter advanced once too often.
mutationEventSkipsVersion(type, id, amount, details) ==
    [id |-> id,
     version |-> details.account.version + Len(snapshotEventOf(details)) + 2,
     type |-> type,
     amount |-> amount]

mutationEvent(type, id, amount, details) ==
    [id |-> id,
     version |-> details.account.version + Len(snapshotEventOf(details)) + 1,
     type |-> type,
     amount |-> amount]

\* The operands of the comparison swapped.
insufficientTokensSwapped(currentAccount, amount) ==
    amount < currentAccount.availableTokens

insufficientTokens(currentAccount, amount) == currentAccount.availableTokens < amount

EventsOf(tbl, id) == {i \in tbl : i.pk = <<"event", id>>}

(***************************************************************************)
(* Operations                                                              *)
(*                                                                         *)
(* pc[c]: "idle", "send" (the transaction is built, ddb.send is next),     *)
(* "get" (the append was accepted, the final get is next), "done".         *)
(* rivals, ledger and calls are history variables: rivals[c] holds the     *)
(* callers that were between their read and their send, on the same        *)
(* account and the same version, when c read (and the other way round);    *)
(* ledger sums the amounts of the accepted appends; calls counts the       *)
(* invocations a specification bounds and the calls of the scenario made; *)
(* race records the start of the       *)
(* retrying callers of SpecRetry.  stream is the change feed of the table   *)
(* with the forwarder's position in it: the records written (feed), the    *)
(* number of records the forwarder is done with (checkpoint), the size of  *)
(* the batch it is being handed (batch, 0 when none), the entries the      *)
(* event bus accepted (bus) and the last invocation (last).  Only          *)
(* SpecStream records the feed.                                            *)
(***************************************************************************)
Init ==
    /\ table = {}
    /\ pc = [c \in Callers |-> "idle"]
    /\ op = [c \in Callers |-> NoOp]
    /\ accountDetails = [c \in Callers |-> Null]
    /\ transaction = [c \in Callers |-> <<>>]
    /\ outcome = [c \in Callers |-> "none"]
    /\ returned = [c \in Callers |-> Null]
    /\ rivals = [c \in Callers |-> {}]
    /\ ledger = [id \in Ids |-> [credited |-> 0, debited |-> 0, appends |-> 0]]
    /\ calls = [debits |-> 0, nonPositive |-> 0, scenario |-> 0]
    /\ race = NoRace
    /\ stream = NoStream

Finish(c, result, value) ==
    /\ pc' = [pc EXCEPT ![c] = "done"]
    /\ outcome' = [outcome EXCEPT ![c] = result]
    /\ returned' = [returned EXCEPT ![c] = value]

Racing(c, id, details) ==
    {d \in Callers \ {c} :
        /\ pc[d] = "send"
        /\ op[d].id = id
        /\ op[d].name \in {"credit", "debit"}
        /\ accountDetails[d].account.version = details.account.version}

Meet(c, found) ==
    rivals' = [d \in Callers |->
                  IF d = c THEN found
                  ELSE IF d \in found THEN rivals[d] \cup {c}
                  ELSE rivals[d]]

\* A creation without the initial grant.
createEventOfNoGrant(id, auth0Id, email) ==
    [auth0Id |-> auth0Id,
     availableTokens |-> 0,
     email |-> email,
     id |-> id,
     type |-> "CREATED",
     version |-> 1]

createEventOf(id, auth0Id, email) ==
    [auth0Id |-> auth0Id,
     availableTokens |-> InitialTokens,
     email |-> email,
     id |-> id,
     type |-> "CREATED",
     version |-> 1]

startCreate(c, id, txn) ==
    /\ pc[c] = "idle"
    /\ transaction' = [transaction EXCEPT ![c] = txn]
    /\ op' = [op EXCEPT ![c] = [name |-> "create", id |-> id, amount |-> 0]]
    /\ pc' = [pc EXCEPT ![c] = "send"]
    /\ Meet(c, {d \in Callers \ {c} :
                   /\ pc[d] = "send" /\ op[d].name = "create" /\ op[d].id = id
                   /\ EventsOf(table, id) = {}})
    /\ UNCHANGED <<table, accountDetails, outcome, returned, ledger>>

create(c, id, auth0Id, email) ==
    startCreate(c, id, createAccount(createEventOf(id, auth0Id, email)))

createWithListItem(c, id, auth0Id, email) ==
    startCreate(c, id, createAccountWithListItem(createEventOf(id, auth0Id, email)))

creditWith(c, id, amount, details) ==
    /\ pc[c] = "idle"
    /\ op' = [op EXCEPT ![c] = [name |-> "credit", id |-> id, amount |-> amount]]
    /\ accountDetails' = [accountDetails EXCEPT ![c] = details]
    /\ IF ~details.found
       THEN /\ Finish(c, "null", Null)
            /\ UNCHANGED <<transaction, rivals>>
       ELSE /\ transaction' = [transaction EXCEPT ![c] =
                   creditAccount(mutationEvent("CREDITED", id, amount, details),
                                 snapshotEventOf(details))]
            /\ pc' = [pc EXCEPT ![c] = "send"]
            /\ Meet(c, Racing(c, id, details))
            /\ UNCHANGED <<outcome, returned>>
    /\ UNCHANGED <<table, ledger>>

credit(c, id, amount) ==
    /\ pc[c] = "idle"
    /\ \E details \in {get(table, id)} : creditWith(c, id, amount, details)

debitWith(c, id, amount, details) ==
    /\ pc[c] = "idle"
    /\ op' = [op EXCEPT ![c] = [name |-> "debit", id |-> id, amount |-> amount]]
    /\ accountDetails' = [accountDetails EXCEPT ![c] = details]
    /\ IF ~details.found
       THEN /\ Finish(c, "null", Null)
            /\ UNCHANGED <<transaction, rivals>>
       ELSE IF insufficientTokens(details.account, amount)
       THEN /\ Finish(c, "InsufficientTokens", Null)
            /\ UNCHANGED <<transaction, rivals>>
       ELSE /\ transaction' = [transaction EXCEPT ![c] =
                   debitAccount(mutationEvent("DEBITED", id, amount, details),
                                snapshotEventOf(details))]
            /\ pc' = [pc EXCEPT ![c] = "send"]
            /\ Meet(c, Racing(c, id, details))
            /\ UNCHANGED <<outcome, returned>>
    /\ UNCHANGED <<table, ledger>>

debit(c, id, amount) ==
    /\ pc[c] = "idle"
    /\ \E details \in {get(table, id)} : debitWith(c, id, amount, details)

Booked(l, o) ==
    [credited |-> l.credited + (IF o.name = "credit" THEN o.amount ELSE 0),
     debited |-> l.debited + (IF o.name = "debit" THEN o.amount ELSE 0),
     appends |-> l.appends + (IF o.name = "create" THEN 0 ELSE 1)]

\* A refused append is swallowed and the final get follows.
sendSwallowsRefusal(c) ==
    /\ pc[c] = "send"
    /\ table' = TransactWrite(table, transaction[c])
    /\ pc' = [pc EXCEPT ![c] = "get"]
    /\ ledger' = IF TransactWriteAccepted(table, transaction[c])
                 THEN [ledger EXCEPT ![op[c].id] = Booked(@, op[c])]
                 ELSE ledger
    /\ UNCHANGED <<outcome, returned, accountDetails, transaction>>
    /\ UNCHANGED <<op, rivals>>

send(c) ==
    /\ pc[c] = "send"
    /\ table' = TransactWrite(table, transaction[c])
    /\ IF TransactWriteAccepted(table, transaction[c])
       THEN /\ pc' = [pc EXCEPT ![c] = "get"]
            /\ ledger' = [ledger EXCEPT ![op[c].id] = Booked(@, op[c])]
            /\ UNCHANGED <<outcome, returned, accountDetails, transaction>>
       ELSE /\ Finish(c, "TransactionCanceled", Null)
            /\ accountDetails' = [accountDetails EXCEPT ![c] = Null]
            /\ transaction' = [transaction EXCEPT ![c] = <<>>]
            /\ UNCHANGED ledger
    /\ UNCHANGED <<op, rivals>>

reread(c) ==
    /\ pc[c] = "get"
    /\ \E details \in {get(table, op[c].id)} :
           Finish(c, IF details.found THEN "ok" ELSE "null", details)
    /\ UNCHANGED <<table, op, accountDetails, transaction, rivals, ledger>>

return(c) ==
    /\ pc[c] = "done"
    /\ pc' = [pc EXCEPT ![c] = "idle"]
    /\ op' = [op EXCEPT ![c] = NoOp]
    /\ accountDetails' = [accountDetails EXCEPT ![c] = Null]
    /\ transaction' = [transaction EXCEPT ![c] = <<>>]
    /\ outcome' = [outcome EXCEPT ![c] = "none"]
    /\ returned' = [returned EXCEPT ![c] = Null]
    /\ rivals' = [rivals EXCEPT ![c] = {}]
    /\ UNCHANGED <<table, ledger>>

(***************************************************************************)
(* Specifications                                                          *)
(*                                                                         *)
(* SpecWide: both callers invoke every operation with every input while an *)
(* account holds fewer than MaxWideEvents events, and credit 1 from there  *)
(* on while it holds fewer than MaxEvents.  SpecSeq: one caller, one       *)
(* operation after the other, with a bounded number of debit invocations   *)
(* and of invocations with an amount <= 0.                                 *)
(***************************************************************************)
Admit(name, id, amount) ==
    /\ Cardinality(EventsOf(table, id)) < MaxEvents
    /\ name = "debit" => calls.debits < MaxDebits
    /\ amount <= 0 => calls.nonPositive < MaxNonPositive
    /\ calls' = [calls EXCEPT
                    !.debits = @ + (IF name = "debit" THEN 1 ELSE 0),
                    !.nonPositive = @ + (IF amount <= 0 THEN 1 ELSE 0)]
    /\ UNCHANGED <<race, stream>>

NextWide ==
    \/ \E c \in Callers, id \in Ids, auth0Id \in Auth0Ids, email \in Emails :
          create(c, id, auth0Id, email) /\ UNCHANGED <<calls, race, stream>>
    \/ \E c \in Callers, id \in Ids, amount \in Amounts :
          /\ Cardinality(EventsOf(table, id)) < MaxWideEvents
          /\ credit(c, id, amount) /\ UNCHANGED <<calls, race, stream>>
    \/ \E c \in Callers, id \in Ids, amount \in Amounts :
          /\ Cardinality(EventsOf(table, id)) < MaxWideEvents
          /\ debit(c, id, amount) /\ UNCHANGED <<calls, race, stream>>
    \/ \E c \in Callers, id \in Ids :
          /\ Cardinality(EventsOf(table, id)) >= MaxWideEvents
          /\ Cardinality(EventsOf(table, id)) < MaxEvents
          /\ credit(c, id, 1) /\ UNCHANGED <<calls, race, stream>>
    \/ \E c \in Callers : send(c) /\ UNCHANGED <<calls, race, stream>>
    \/ \E c \in Callers : reread(c) /\ UNCHANGED <<calls, race, stream>>
    \/ \E c \in Callers : return(c) /\ UNCHANGED <<calls, race, stream>>

SpecWide == Init /\ [][NextWide]_vars

(***************************************************************************)
(* SpecSeq: one caller, one operation after the other.                     *)
(***************************************************************************)
NextSeq ==
    \/ \E id \in Ids, auth0Id \in Auth0Ids, email \in Emails :
          create("c1", id, auth0Id, email) /\ UNCHANGED <<calls, race, stream>>
    \/ \E id \in Ids, amount \in Amounts :
          Admit("credit", id, amount) /\ credit("c1", id, amount)
    \/ \E id \in Ids, amount \in Amounts :
          Admit("debit", id, amount) /\ debit("c1", id, amount)
    \/ send("c1") /\ UNCHANGED <<calls, race, stream>>
    \/ reread("c1") /\ UNCHANGED <<calls, race, stream>>
    \/ return("c1") /\ UNCHANGED <<calls, race, stream>>

SpecSeq == Init /\ [][NextSeq]_vars

(***************************************************************************)
(* SpecList: SpecWide with the revision of createAccount that writes the   *)
(* account list item.                                                      *)
(***************************************************************************)
NextList ==
    \/ \E c \in Callers, id \in Ids, auth0Id \in Auth0Ids, email \in EmailsV1 :
          createWithListItem(c, id, auth0Id, email) /\ UNCHANGED <<calls, race, stream>>
    \/ \E c \in Callers, id \in Ids, amount \in Amounts :
          /\ Cardinality(EventsOf(table, id)) < MaxWideEvents
          /\ credit(c, id, amount) /\ UNCHANGED <<calls, race, stream>>
    \/ \E c \in Callers, id \in Ids, amount \in Amounts :
          /\ Cardinality(EventsOf(table, id)) < MaxWideEvents
          /\ debit(c, id, amount) /\ UNCHANGED <<calls, race, stream>>
    \/ \E c \in Callers : send(c) /\ UNCHANGED <<calls, race, stream>>
    \/ \E c \in Callers : reread(c) /\ UNCHANGED <<calls, race, stream>>
    \/ \E c \in Callers : return(c) /\ UNCHANGED <<calls, race, stream>>

SpecList == Init /\ [][NextList]_vars

(***************************************************************************)
(* Definitions the properties share                                        *)
(***************************************************************************)
Versions(id) == {i.version : i \in EventsOf(table, id)}

RECURSIVE SumOfAmounts(_)
SumOfAmounts(items) ==
    IF items = {} THEN 0
    ELSE LET i == CHOOSE x \in items : TRUE
         IN  amountOf(i) + SumOfAmounts(items \ {i})

OfType(items, type) == {i \in items : i.type = type}

\* The fold of a set of events from version 1: the Created event is the base,
\* Credited adds, Debited subtracts, Snapshot is ignored.
FullFold(items) ==
    LET created == CHOOSE i \in OfType(items, "CREATED") : TRUE
    IN  created.availableTokens + SumOfAmounts(OfType(items, "CREDITED"))
                                - SumOfAmounts(OfType(items, "DEBITED"))

Exists(id) == OfType(EventsOf(table, id), "CREATED") # {}

RECURSIVE ByVersionDescending(_)
ByVersionDescending(items) ==
    IF items = {} THEN <<>>
    ELSE LET top == CHOOSE i \in items : \A j \in items : j.version <= i.version
         IN  <<top>> \o ByVersionDescending(items \ {top})

(***************************************************************************)
(* SpecRetry: callers that retry.  One caller first builds an account up   *)
(* with Create and Credits of 1; then every caller invokes credit on it    *)
(* from the same state of the table (startRace: the reads of all the       *)
(* invocations, none of them separated by a write), and re-invokes credit, *)
(* which reads the state again, each time its append is refused.  A caller *)
(* whose Credit succeeded stops.  Every invocation runs to its end, so     *)
(* each caller's steps are weakly fair.                                    *)
(***************************************************************************)
startRace(id, amount) ==
    /\ ~race.active
    /\ \A c \in Callers : pc[c] = "idle"
    /\ LET details == get(table, id)
       IN  /\ details.found
           /\ race' = [active |-> TRUE, id |-> id, amount |-> amount,
                       availableTokens |-> details.account.availableTokens,
                       credited |-> Cardinality(OfType(EventsOf(table, id), "CREDITED"))]
           /\ op' = [c \in Callers |->
                        [name |-> "credit", id |-> id, amount |-> amount[c]]]
           /\ accountDetails' = [c \in Callers |-> details]
           /\ transaction' = [c \in Callers |->
                 creditAccount(mutationEvent("CREDITED", id, amount[c], details),
                               snapshotEventOf(details))]
           /\ pc' = [c \in Callers |-> "send"]
           /\ rivals' = [c \in Callers |-> Callers \ {c}]
    /\ UNCHANGED <<table, outcome, returned, ledger, calls, stream>>

RetryStep(c) ==
    \/ send(c) /\ UNCHANGED <<calls, race, stream>>
    \/ reread(c) /\ UNCHANGED <<calls, race, stream>>
    \/ /\ race.active => outcome[c] = "TransactionCanceled"
       /\ return(c) /\ UNCHANGED <<calls, race, stream>>
    \/ /\ race.active
       /\ credit(c, race.id, race.amount[c]) /\ UNCHANGED <<calls, race, stream>>

NextRetry ==
    \/ \E id \in Ids, auth0Id \in Auth0Ids, email \in Emails :
          ~race.active /\ create("c1", id, auth0Id, email) /\ UNCHANGED <<calls, race, stream>>
    \/ \E id \in Ids :
          /\ ~race.active
          /\ Cardinality(EventsOf(table, id)) < MaxEvents
          /\ credit("c1", id, 1) /\ UNCHANGED <<calls, race, stream>>
    \/ \E id \in Ids, amount \in [Callers -> RaceAmounts] : startRace(id, amount)
    \/ \E c \in Callers : RetryStep(c)

SpecRetry ==
    /\ Init /\ [][NextRetry]_vars
    /\ \A c \in Callers : WF_vars(RetryStep(c))

(***************************************************************************)
(* SpecScenario: caller c1 makes the calls of the end-to-end scenario, one *)
(* after the other, each on the account the Create made, while caller c2   *)
(* reads that account through getAccount.                                  *)
(***************************************************************************)
ScenarioId == "a"

Scenario ==
    <<[name |-> "create", amount |-> 0],
      [name |-> "credit", amount |-> 5],
      [name |-> "debit", amount |-> 3],
      [name |-> "debit", amount |-> 10]>>
    \o [k \in 1..8 |-> [name |-> "credit", amount |-> 1]]

NextCall(name) ==
    /\ calls.scenario < Len(Scenario)
    /\ Scenario[calls.scenario + 1].name = name
    /\ calls' = [calls EXCEPT !.scenario = @ + 1]
    /\ UNCHANGED <<race, stream>>

\* A read that stores the state it folded as a Snapshot of its own.
getAccountThatSnapshots(c, id) ==
    /\ pc[c] = "idle"
    /\ op' = [op EXCEPT ![c] = [name |-> "getAccount", id |-> id, amount |-> 0]]
    /\ \E details \in {get(table, id)} :
           /\ Finish(c, IF details.found THEN "ok" ELSE "TypeError", details)
           /\ table' = IF details.found
                        THEN table \cup {formatEventItem(
                                 [version |-> details.account.version + 1,
                                  pk |-> details.account.pk,
                                  sk |-> <<"event", Digits(details.account.version + 1)>>]
                                 @@ details.account)}
                        ELSE table
    /\ UNCHANGED <<accountDetails, transaction, rivals, ledger>>

getAccount(c, id) ==
    /\ pc[c] = "idle"
    /\ op' = [op EXCEPT ![c] = [name |-> "getAccount", id |-> id, amount |-> 0]]
    /\ \E details \in {get(table, id)} :
           Finish(c, IF details.found THEN "ok" ELSE "TypeError", details)
    /\ UNCHANGED <<table, accountDetails, transaction, rivals, ledger>>

NextScenario ==
    \/ \E auth0Id \in Auth0Ids, email \in Emails :
          NextCall("create") /\ create("c1", ScenarioId, auth0Id, email)
    \/ /\ NextCall("credit")
       /\ credit("c1", ScenarioId, Scenario[calls.scenario + 1].amount)
    \/ /\ NextCall("debit")
       /\ debit("c1", ScenarioId, Scenario[calls.scenario + 1].amount)
    \/ getAccount("c2", ScenarioId) /\ UNCHANGED <<calls, race, stream>>
    \/ \E c \in Callers : send(c) /\ UNCHANGED <<calls, race, stream>>
    \/ \E c \in Callers : reread(c) /\ UNCHANGED <<calls, race, stream>>
    \/ \E c \in Callers : return(c) /\ UNCHANGED <<calls, race, stream>>

SpecScenario == Init /\ [][NextScenario]_vars

(***************************************************************************)
(* SpecBuild: credit and debit as functions of the page they are given.    *)
(* The table starts as the history of an account with 0..MaxSince Credited *)
(* events after its version-2 snapshot, each item keyed as the repository  *)
(* keys it, and the operations reconstruct from the page that lists that   *)
(* history newest version first.                                           *)
(***************************************************************************)
History(id, auth0Id, email, k) ==
    {put.Item : put \in Range(createAccount(createEventOf(id, auth0Id, email)))}
    \cup {formatEventItem([id |-> id, version |-> v, type |-> "CREDITED", amount |-> 1]) :
             v \in 3..(k + 2)}

PageByVersion(tbl, id) == Take(ByVersionDescending(EventsOf(tbl, id)), QueryLimit)

InitBuild ==
    /\ \E id \in Ids, auth0Id \in Auth0Ids, email \in Emails, k \in 0..MaxSince :
          table = History(id, auth0Id, email, k)
    /\ pc = [c \in Callers |-> "idle"]
    /\ op = [c \in Callers |-> NoOp]
    /\ accountDetails = [c \in Callers |-> Null]
    /\ transaction = [c \in Callers |-> <<>>]
    /\ outcome = [c \in Callers |-> "none"]
    /\ returned = [c \in Callers |-> Null]
    /\ rivals = [c \in Callers |-> {}]
    /\ ledger = [id \in Ids |-> [credited |-> 0, debited |-> 0, appends |-> 0]]
    /\ calls = [debits |-> 0, nonPositive |-> 0, scenario |-> 0]
    /\ race = NoRace
    /\ stream = NoStream

NextBuild ==
    \/ \E c \in BuildCallers, id \in Ids, amount \in BuildAmounts :
          /\ pc[c] = "idle"
          /\ \E details \in {getFromItems(PageByVersion(table, id))} :
                creditWith(c, id, amount, details)
          /\ UNCHANGED <<calls, race, stream>>
    \/ \E c \in BuildCallers, id \in Ids, amount \in BuildAmounts :
          /\ pc[c] = "idle"
          /\ \E details \in {getFromItems(PageByVersion(table, id))} :
                debitWith(c, id, amount, details)
          /\ UNCHANGED <<calls, race, stream>>
    \/ \E c \in BuildCallers : send(c) /\ UNCHANGED <<calls, race, stream>>
    \/ \E c \in BuildCallers : reread(c) /\ UNCHANGED <<calls, race, stream>>
    \/ \E c \in BuildCallers : return(c) /\ UNCHANGED <<calls, race, stream>>

SpecBuild == InitBuild /\ [][NextBuild]_vars

(***************************************************************************)
(* The aggregate of lib/models/account.ts: credit and debit take the       *)
(* account and the items since the snapshot from the resolver, which reads *)
(* them with get just before (account.resolver.ts), and put their events   *)
(* as they are into a table keyed by the attributes id and version, the    *)
(* version a number.  Its items are kept in the same set as the items of   *)
(* the table keyed by pk and sk, under keys of their own, so that the two  *)
(* aggregates can work side by side on the same history.                   *)
(***************************************************************************)
keyedByIdVersion(item) ==
    [pk |-> <<"id", item.id>>, sk |-> <<"version", item.version>>] @@ item

EventsById(tbl, id) == {i \in tbl : i.pk = <<"id", id>>}

getById(tbl, id) ==
    CHOOSE details \in
        {getFromItems(items) :
            items \in {Take(ByVersionDescending(EventsById(tbl, id)), QueryLimit)}} : TRUE

snapshotOfState(currentAccount, itemsSinceSnapshot) ==
    IF Len(itemsSinceSnapshot) >= SnapshotThreshold
    THEN << Put(keyedByIdVersion([version |-> currentAccount.version + 1]
                                 @@ currentAccount), "version") >>
    ELSE <<>>

eventOfState(type, id, amount, currentAccount, itemsSinceSnapshot) ==
    [id |-> id,
     version |-> currentAccount.version
                   + Len(snapshotOfState(currentAccount, itemsSinceSnapshot)) + 1,
     type |-> type,
     amount |-> amount]

creditOfState(c, id, amount) ==
    /\ pc[c] = "idle"
    /\ op' = [op EXCEPT ![c] = [name |-> "credit", id |-> id, amount |-> amount]]
    /\ \E details \in {getById(table, id)} :
          /\ accountDetails' = [accountDetails EXCEPT ![c] = details]
          /\ IF ~details.found
             THEN /\ Finish(c, "null", Null)
                  /\ UNCHANGED transaction
             ELSE /\ transaction' = [transaction EXCEPT ![c] =
                         snapshotOfState(details.account, details.itemsSinceSnapshot)
                         \o << Put(keyedByIdVersion(
                                     eventOfState("CREDITED", id, amount, details.account,
                                                  details.itemsSinceSnapshot)),
                                   "version") >>]
                  /\ pc' = [pc EXCEPT ![c] = "send"]
                  /\ UNCHANGED <<outcome, returned>>
    /\ UNCHANGED <<table, rivals, ledger>>

debitOfState(c, id, amount) ==
    /\ pc[c] = "idle"
    /\ op' = [op EXCEPT ![c] = [name |-> "debit", id |-> id, amount |-> amount]]
    /\ \E details \in {getById(table, id)} :
          /\ accountDetails' = [accountDetails EXCEPT ![c] = details]
          /\ IF ~details.found
             THEN /\ Finish(c, "null", Null)
                  /\ UNCHANGED transaction
             ELSE IF insufficientTokens(details.account, amount)
             THEN /\ Finish(c, "InsufficientTokens", Null)
                  /\ UNCHANGED transaction
             ELSE /\ transaction' = [transaction EXCEPT ![c] =
                         snapshotOfState(details.account, details.itemsSinceSnapshot)
                         \o << Put(keyedByIdVersion(
                                     eventOfState("DEBITED", id, amount, details.account,
                                                  details.itemsSinceSnapshot)),
                                   "version") >>]
                  /\ pc' = [pc EXCEPT ![c] = "send"]
                  /\ UNCHANGED <<outcome, returned>>
    /\ UNCHANGED <<table, rivals, ledger>>

rereadById(c) ==
    /\ pc[c] = "get"
    /\ \E details \in {getById(table, op[c].id)} :
           Finish(c, IF details.found THEN "ok" ELSE "null", details)
    /\ UNCHANGED <<table, op, accountDetails, transaction, rivals, ledger>>

(***************************************************************************)
(* SpecVariants: the two aggregates side by side.  Each table starts with  *)
(* the history of the same account, Created, Snapshot and 0..MaxHistory    *)
(* Credited events of 1; caller c1 invokes one Credit or Debit of the      *)
(* aggregate that reads for itself, caller c2 one Credit or Debit of the   *)
(* aggregate that is handed the state.  No other writer is at work.        *)
(***************************************************************************)
HistoryById(id, auth0Id, email, k) ==
    {keyedByIdVersion(item) :
        item \in {createEventOf(id, auth0Id, email),
                  [version |-> 2, type |-> "SNAPSHOT"] @@ createEventOf(id, auth0Id, email)}
                 \cup {[id |-> id, version |-> v, type |-> "CREDITED", amount |-> 1] :
                          v \in 3..(k + 2)}}

InitVariants ==
    /\ \E id \in Ids, auth0Id \in Auth0Ids, email \in Emails, k \in 0..MaxHistory :
          table = History(id, auth0Id, email, k) \cup HistoryById(id, auth0Id, email, k)
    /\ pc = [c \in Callers |-> "idle"]
    /\ op = [c \in Callers |-> NoOp]
    /\ accountDetails = [c \in Callers |-> Null]
    /\ transaction = [c \in Callers |-> <<>>]
    /\ outcome = [c \in Callers |-> "none"]
    /\ returned = [c \in Callers |-> Null]
    /\ rivals = [c \in Callers |-> {}]
    /\ ledger = [id \in Ids |-> [credited |-> 0, debited |-> 0, appends |-> 0]]
    /\ calls = [debits |-> 0, nonPositive |-> 0, scenario |-> 0]
    /\ race = NoRace
    /\ stream = NoStream

NextVariants ==
    \/ \E id \in Ids, amount \in Amounts :
          credit("c1", id, amount) /\ UNCHANGED <<calls, race, stream>>
    \/ \E id \in Ids, amount \in Amounts :
          debit("c1", id, amount) /\ UNCHANGED <<calls, race, stream>>
    \/ reread("c1") /\ UNCHANGED <<calls, race, stream>>
    \/ \E id \in Ids, amount \in Amounts :
          creditOfState("c2", id, amount) /\ UNCHANGED <<calls, race, stream>>
    \/ \E id \in Ids, amount \in Amounts :
          debitOfState("c2", id, amount) /\ UNCHANGED <<calls, race, stream>>
    \/ rereadById("c2") /\ UNCHANGED <<calls, race, stream>>
    \/ \E c \in Callers : send(c) /\ UNCHANGED <<calls, race, stream>>

SpecVariants == InitVariants /\ [][NextVariants]_vars

(***************************************************************************)
(* The account list                                                        *)
(*                                                                         *)
(* The earlier revision lists the items of the partition 'account' of the  *)
(* table, ordered by the sort key `account#${email}`; the later revision   *)
(* lists the Created items through the index on gsi_pk = 'account',        *)
(* ordered by gsi_sk = `${email}#${auth0Id}#${id}`.  Both orders are the   *)
(* byte order of the strings, so the strings are spelled out as character  *)
(* codes.  The index is taken as settled: it holds the projection of every *)
(* item of the table that carries gsi_pk.                                  *)
(***************************************************************************)
Chars(s) ==
    CASE s = "a" -> <<97>>
      [] s = "b" -> <<98>>
      [] s = "c" -> <<99>>
      [] s = "d" -> <<100>>
      [] s = "e1" -> <<101, 49>>
      [] s = "e2" -> <<101, 50>>
      [] s = "e3" -> <<101, 51>>
      [] s = "u1" -> <<117, 49>>
      [] s = "account" -> <<97, 99, 99, 111, 117, 110, 116>>
      [] s = "event" -> <<101, 118, 101, 110, 116>>
      [] s = "pk" -> <<112, 107>>
      [] s = "sk" -> <<115, 107>>
      [] s = "gsi_pk" -> <<103, 115, 105, 95, 112, 107>>
      [] s = "gsi_sk" -> <<103, 115, 105, 95, 115, 107>>
      [] s = "S" -> <<83>>

HashChar == <<35>>

\* The sort key of the listing as the string the table compares.
listSortString(item) ==
    IF "gsi_sk" \in DOMAIN item
    THEN Chars(item.gsi_sk[1]) \o HashChar \o Chars(item.gsi_sk[2])
            \o HashChar \o Chars(item.gsi_sk[3])
    ELSE Chars(item.sk[1]) \o HashChar \o Chars(item.sk[2])

NoKey == [none |-> TRUE]
NoToken == <<>>

(***************************************************************************)
(* The cursor: Buffer.from(JSON.stringify(key)).toString('base64') and     *)
(* JSON.parse(Buffer.from(token, 'base64').toString()).  A key is the      *)
(* record the query reports, each attribute in attribute-value form        *)
(* {S: string}; a string is the sequence of its character codes (below     *)
(* 2048, no control character), JSON text is a string, the buffer is the   *)
(* sequence of the bytes of its UTF-8 form and the token is the string of  *)
(* base64 characters.                                                      *)
(***************************************************************************)
KeyNames == <<"pk", "sk", "gsi_pk", "gsi_sk">>

QuoteChar == <<34>>
BackslashChar == <<92>>
ColonChar == <<58>>
CommaChar == <<44>>
OpenBrace == <<123>>
CloseBrace == <<125>>
PadChar == <<61>>

RECURSIVE Escaped(_)
Escaped(str) ==
    IF str = <<>> THEN <<>>
    ELSE Escaped(SubSeq(str, 1, Len(str) - 1))
         \o (IF <<str[Len(str)]>> \in {QuoteChar, BackslashChar}
             THEN BackslashChar \o <<str[Len(str)]>>
             ELSE <<str[Len(str)]>>)

JSONstringifyString(str) == QuoteChar \o Escaped(str) \o QuoteChar

RECURSIVE JSONstringifyMembers(_, _)
JSONstringifyMembers(key, names) ==
    IF names = <<>> THEN <<>>
    ELSE LET name == Head(names)
             rest == JSONstringifyMembers(key, Tail(names))
         IN  IF name \notin DOMAIN key THEN rest
             ELSE JSONstringifyString(Chars(name)) \o ColonChar
                  \o OpenBrace \o JSONstringifyString(Chars("S")) \o ColonChar
                  \o JSONstringifyString(key[name].S) \o CloseBrace
                  \o (IF rest = <<>> THEN <<>> ELSE CommaChar \o rest)

JSONstringifyKey(key) == OpenBrace \o JSONstringifyMembers(key, KeyNames) \o CloseBrace

\* The concatenation of a sequence of sequences, by halves.
RECURSIVE Flatten(_)
Flatten(seqs) ==
    IF seqs = <<>> THEN <<>>
    ELSE IF Len(seqs) = 1 THEN seqs[1]
    ELSE Flatten(SubSeq(seqs, 1, Len(seqs) \div 2))
         \o Flatten(SubSeq(seqs, (Len(seqs) \div 2) + 1, Len(seqs)))

\* Buffer.from(string): the UTF-8 bytes.
BufferFrom(str) ==
    Flatten([k \in 1..Len(str) |->
                IF str[k] < 128 THEN <<str[k]>>
                ELSE <<192 + (str[k] \div 64), 128 + (str[k] % 64)>>])

\* The bytes read as the characters of Latin-1.
BufferToLatin1(bytes) == bytes

\* buffer.toString(): the string of the UTF-8 bytes, one character for every
\* byte that is not a continuation byte.
BufferToString(bytes) ==
    Flatten([k \in 1..Len(bytes) |->
                IF bytes[k] < 128 THEN <<bytes[k]>>
                ELSE IF bytes[k] < 192
                THEN IF k > 1 /\ bytes[k - 1] >= 192 THEN <<>> ELSE <<65533>>
                ELSE IF k < Len(bytes) /\ bytes[k + 1] >= 128 /\ bytes[k + 1] < 192
                THEN <<(bytes[k] - 192) * 64 + (bytes[k + 1] - 128)>>
                ELSE <<65533>>])

Base64Char(v) ==
    IF v < 26 THEN 65 + v
    ELSE IF v < 52 THEN 97 + (v - 26)
    ELSE IF v < 62 THEN 48 + (v - 52)
    ELSE IF v = 62 THEN 43 ELSE 47

Base64Value(ch) ==
    IF ch >= 65 /\ ch <= 90 THEN ch - 65
    ELSE IF ch >= 97 /\ ch <= 122 THEN ch - 97 + 26
    ELSE IF ch >= 48 /\ ch <= 57 THEN ch - 48 + 52
    ELSE IF ch = 43 THEN 62 ELSE 63

\* buffer.toString('base64'): four characters for every three bytes, padded.
RECURSIVE toBase64(_)
toBase64(bytes) ==
    IF bytes = <<>> THEN <<>>
    ELSE IF Len(bytes) = 1
    THEN <<Base64Char(bytes[1] \div 4), Base64Char((bytes[1] % 4) * 16)>>
         \o PadChar \o PadChar
    ELSE IF Len(bytes) = 2
    THEN <<Base64Char(bytes[1] \div 4),
           Base64Char((bytes[1] % 4) * 16 + (bytes[2] \div 16)),
           Base64Char((bytes[2] % 16) * 4)>> \o PadChar
    ELSE IF Len(bytes) = 3
    THEN <<Base64Char(bytes[1] \div 4),
           Base64Char((bytes[1] % 4) * 16 + (bytes[2] \div 16)),
           Base64Char((bytes[2] % 16) * 4 + (bytes[3] \div 64)),
           Base64Char(bytes[3] % 64)>>
    ELSE toBase64(SubSeq(bytes, 1, 3 * ((Len(bytes) + 5) \div 6)))
         \o toBase64(SubSeq(bytes, 3 * ((Len(bytes) + 5) \div 6) + 1, Len(bytes)))

\* Buffer.from(token, 'base64'): three bytes for every four characters, fewer
\* where the padding stands.
RECURSIVE fromBase64(_)
fromBase64(str) ==
    IF Len(str) > 4
    THEN fromBase64(SubSeq(str, 1, 4 * ((Len(str) + 7) \div 8)))
         \o fromBase64(SubSeq(str, 4 * ((Len(str) + 7) \div 8) + 1, Len(str)))
    ELSE IF Len(str) < 2 \/ <<str[1]>> = PadChar \/ <<str[2]>> = PadChar THEN <<>>
    ELSE LET v1 == Base64Value(str[1])
             v2 == Base64Value(str[2])
             first == <<v1 * 4 + (v2 \div 16)>>
         IN  IF Len(str) < 3 \/ <<str[3]>> = PadChar THEN first
             ELSE LET v3 == Base64Value(str[3])
                      second == <<(v2 % 16) * 16 + (v3 \div 4)>>
                  IN  IF Len(str) < 4 \/ <<str[4]>> = PadChar THEN first \o second
                      ELSE first \o second \o <<(v3 % 4) * 64 + Base64Value(str[4])>>

\* JSON.parse of a string literal that opens at text[at]: its value and the
\* position after its closing quote.
RECURSIVE JSONparseString(_, _, _)
JSONparseString(text, at, value) ==
    IF <<text[at + 1]>> = QuoteChar THEN [value |-> value, next |-> at + 2]
    ELSE IF <<text[at + 1]>> = BackslashChar
    THEN JSONparseString(text, at + 2, value \o <<text[at + 2]>>)
    ELSE JSONparseString(text, at + 1, value \o <<text[at + 1]>>)

NameOf(str) ==
    CHOOSE name \in {KeyNames[k] : k \in 1..Len(KeyNames)} \cup {"S"} : Chars(name) = str

\* The members of the object from text[at] on, as pairs of name and value.
RECURSIVE JSONparseMembers(_, _)
JSONparseMembers(text, at) ==
    IF <<text[at]>> = CloseBrace THEN {}
    ELSE LET from == IF <<text[at]>> = CommaChar THEN at + 1 ELSE at
             name == JSONparseString(text, from, <<>>)
             tag == JSONparseString(text, name.next + 2, <<>>)
             str == JSONparseString(text, tag.next + 1, <<>>)
         IN  {<<NameOf(name.value), NameOf(tag.value), str.value>>}
             \cup JSONparseMembers(text, str.next + 1)

JSONparseKey(text) ==
    LET members == JSONparseMembers(text, 2)
    IN  [name \in {m[1] : m \in members} |->
            LET m == CHOOSE x \in members : x[1] = name
            IN  [tag \in {m[2]} |-> m[3]]]

nextTokenOf(LastEvaluatedKey) ==
    IF LastEvaluatedKey = NoKey THEN NoToken
    ELSE toBase64(BufferFrom(JSONstringifyKey(LastEvaluatedKey)))

ExclusiveStartKeyOf(token) ==
    IF token = NoToken THEN NoKey
    ELSE JSONparseKey(BufferToString(fromBase64(token)))

\* The items in ascending order of the listing's sort key.
SortAscending(items) ==
    [k \in 1..Cardinality(items) |->
        CHOOSE i \in items :
            Cardinality({j \in items :
                StrLess(listSortString(j), listSortString(i))}) = k - 1]

DigitChars(digits) == [k \in 1..Len(digits) |-> 48 + digits[k]]

\* The key attributes of an item as the strings the table stores.
pkString(item) ==
    IF Len(item.pk) = 1 THEN Chars(item.pk[1])
    ELSE Chars(item.pk[1]) \o HashChar \o Chars(item.pk[2])

skString(item) ==
    IF item.sk[1] = "event" THEN Chars(item.sk[1]) \o HashChar \o DigitChars(item.sk[2])
    ELSE Chars(item.sk[1]) \o HashChar \o Chars(item.sk[2])

TableKey(item) == [pk |-> [S |-> pkString(item)], sk |-> [S |-> skString(item)]]

IndexKey(item) ==
    [pk |-> [S |-> pkString(item)], sk |-> [S |-> skString(item)],
     gsi_pk |-> [S |-> Chars(item.gsi_pk[1])], gsi_sk |-> [S |-> listSortString(item)]]

\* The key the query reports for an item: the table's key, and the index's
\* key with it when the item was read through the index.
KeyOf(item) == IF "gsi_pk" \in DOMAIN item THEN IndexKey(item) ELSE TableKey(item)

\* The sort key of the listing in a key the query was given.
keySortString(key) == IF "gsi_sk" \in DOMAIN key THEN key.gsi_sk.S ELSE key.sk.S

\* Query with Limit and ExclusiveStartKey: the items after the start key, up
\* to the limit, and the key of the last one when the limit was reached.
Query(items, ExclusiveStartKey, Limit) ==
    LET rest == IF ExclusiveStartKey = NoKey THEN items
                ELSE {i \in items : StrLess(keySortString(ExclusiveStartKey),
                                            listSortString(i))}
        page == Take(SortAscending(rest), Limit)
    IN  [Items |-> page,
         LastEvaluatedKey |-> IF Len(page) = Limit /\ Limit > 0
                              THEN KeyOf(page[Len(page)]) ELSE NoKey]

AccountListResult(accountResults) ==
    IF Len(accountResults.Items) = 0
    THEN [accounts |-> <<>>, nextToken |-> NoToken]
    ELSE [accounts |-> accountResults.Items,
          nextToken |-> nextTokenOf(accountResults.LastEvaluatedKey)]

\* The earlier revision: the partition 'account' of the table.
getAccountListOfListItems(tbl, pageSize, token) ==
    AccountListResult(Query({i \in tbl : i.pk = <<"account">>},
                            ExclusiveStartKeyOf(token), pageSize))

\* The later revision: the index partition gsi_pk = 'account'.
getAccountList(tbl, pageSize, token) ==
    AccountListResult(Query({i \in tbl : "gsi_pk" \in DOMAIN i /\ i.gsi_pk = <<"account">>},
                            ExclusiveStartKeyOf(token), pageSize))

\* A traversal: the first call has no token, every further call carries the
\* token of the page before it; seen collects the ids of the pages so far.
listPage(c, pageSize, result, seenBefore, pagesBefore) ==
    /\ op' = [op EXCEPT ![c] = [name |-> "getAccountList", id |-> "",
                                amount |-> 0, pageSize |-> pageSize]]
    /\ Finish(c, "ok", [found |-> TRUE,
                        accounts |-> result.accounts,
                        nextToken |-> result.nextToken,
                        seen |-> seenBefore \o [k \in 1..Len(result.accounts) |->
                                                   result.accounts[k].id],
                        pages |-> pagesBefore + 1])
    /\ UNCHANGED <<table, accountDetails, transaction, rivals, ledger>>

Traversing(c) == pc[c] = "done" /\ op[c].name = "getAccountList"

Creating(c) == pc[c] = "send" /\ op[c].name = "create"

listAccountsOfListItems(c, pageSize) ==
    /\ pc[c] = "idle"
    /\ \A d \in Callers : ~Creating(d)
    /\ \E result \in {getAccountListOfListItems(table, pageSize, NoToken)} :
          listPage(c, pageSize, result, <<>>, 0)

nextAccountsOfListItems(c) ==
    /\ Traversing(c)
    /\ returned[c].nextToken # NoToken
    /\ \E result \in {getAccountListOfListItems(table, op[c].pageSize,
                                                returned[c].nextToken)} :
          listPage(c, op[c].pageSize, result, returned[c].seen, returned[c].pages)

listAccounts(c, pageSize) ==
    /\ pc[c] = "idle"
    /\ \A d \in Callers : ~Creating(d)
    /\ \E result \in {getAccountList(table, pageSize, NoToken)} :
          listPage(c, pageSize, result, <<>>, 0)

nextAccounts(c) ==
    /\ Traversing(c)
    /\ returned[c].nextToken # NoToken
    /\ \E result \in {getAccountList(table, op[c].pageSize, returned[c].nextToken)} :
          listPage(c, op[c].pageSize, result, returned[c].seen, returned[c].pages)

(***************************************************************************)
(* SpecListing and SpecListingOfListItems: accounts with identifiers of    *)
(* ListIds are created, credited and debited, and listed page by page; no  *)
(* Create starts while a traversal is under way and no traversal starts    *)
(* while a Create is in flight.                                            *)
(***************************************************************************)
InitListing ==
    /\ table = {}
    /\ pc = [c \in Callers |-> "idle"]
    /\ op = [c \in Callers |-> NoOp]
    /\ accountDetails = [c \in Callers |-> Null]
    /\ transaction = [c \in Callers |-> <<>>]
    /\ outcome = [c \in Callers |-> "none"]
    /\ returned = [c \in Callers |-> Null]
    /\ rivals = [c \in Callers |-> {}]
    /\ ledger = [id \in ListIds |-> [credited |-> 0, debited |-> 0, appends |-> 0]]
    /\ calls = [debits |-> 0, nonPositive |-> 0, scenario |-> 0]
    /\ race = NoRace
    /\ stream = NoStream

Mutations(tbl) == {i \in tbl : i.pk[1] = "event" /\ i.type \in {"CREDITED", "DEBITED"}}

NextListingOfListItems ==
    \/ \E id \in ListIds, auth0Id \in Auth0Ids, email \in ListEmails :
          /\ \A d \in Callers : ~Traversing(d)
          /\ createWithListItem("c1", id, auth0Id, email) /\ UNCHANGED <<calls, race, stream>>
    \/ \E id \in ListIds, amount \in BuildAmounts :
          /\ Cardinality(Mutations(table)) < MaxListMutations
          /\ credit("c1", id, amount) /\ UNCHANGED <<calls, race, stream>>
    \/ \E id \in ListIds, amount \in BuildAmounts :
          /\ Cardinality(Mutations(table)) < MaxListMutations
          /\ debit("c1", id, amount) /\ UNCHANGED <<calls, race, stream>>
    \/ \E pageSize \in PageSizes :
          listAccountsOfListItems("c2", pageSize) /\ UNCHANGED <<calls, race, stream>>
    \/ nextAccountsOfListItems("c2") /\ UNCHANGED <<calls, race, stream>>
    \/ \E c \in Callers : send(c) /\ UNCHANGED <<calls, race, stream>>
    \/ \E c \in Callers : reread(c) /\ UNCHANGED <<calls, race, stream>>
    \/ \E c \in Callers : return(c) /\ UNCHANGED <<calls, race, stream>>

SpecListingOfListItems == InitListing /\ [][NextListingOfListItems]_vars

NextListing ==
    \/ \E id \in ListIds, auth0Id \in Auth0Ids, email \in ListEmails :
          /\ \A d \in Callers : ~Traversing(d)
          /\ create("c1", id, auth0Id, email) /\ UNCHANGED <<calls, race, stream>>
    \/ \E id \in ListIds, amount \in BuildAmounts :
          /\ Cardinality(Mutations(table)) < MaxListMutations
          /\ credit("c1", id, amount) /\ UNCHANGED <<calls, race, stream>>
    \/ \E id \in ListIds, amount \in BuildAmounts :
          /\ Cardinality(Mutations(table)) < MaxListMutations
          /\ debit("c1", id, amount) /\ UNCHANGED <<calls, race, stream>>
    \/ \E pageSize \in PageSizes :
          listAccounts("c2", pageSize) /\ UNCHANGED <<calls, race, stream>>
    \/ nextAccounts("c2") /\ UNCHANGED <<calls, race, stream>>
    \/ \E c \in Callers : send(c) /\ UNCHANGED <<calls, race, stream>>
    \/ \E c \in Callers : reread(c) /\ UNCHANGED <<calls, race, stream>>
    \/ \E c \in Callers : return(c) /\ UNCHANGED <<calls, race, stream>>

SpecListing == InitListing /\ [][NextListing]_vars

(***************************************************************************)
(* SpecCursor: getAccountList as a function of what the query answers.     *)
(* The answer is any page, empty or not, with any key as LastEvaluatedKey  *)
(* or none; the key's strings include a quote, a backslash, a character    *)
(* outside ASCII and the characters of base64 itself, in lengths that      *)
(* leave the JSON text at every remainder modulo 3.  The caller then calls *)
(* again with the token it was given (resumeAccountList), and the query    *)
(* answers again.                                                          *)
(***************************************************************************)
CursorStrings ==
    {Chars("account") \o HashChar \o Chars("e1"),
     <<101, 34>>, <<92>>, <<233, 64>>, <<61, 61, 47, 43>>, <<97>>}

CursorKeys ==
    {[pk |-> [S |-> p], sk |-> [S |-> q]] : p \in CursorStrings, q \in CursorStrings}
    \cup {[pk |-> [S |-> p], sk |-> [S |-> q],
           gsi_pk |-> [S |-> Chars("account")], gsi_sk |-> [S |-> g]] :
             p \in {Chars("event") \o HashChar \o Chars("a")},
             q \in CursorStrings, g \in CursorStrings}

CursorPages == {<<>>, <<formatCreateItem(createEventOf("a", "u1", "e1"))>>}

answerAccountList(c, pageSize, accountResults) ==
    /\ pc[c] \in {"idle", "query"}
    /\ op' = [op EXCEPT ![c] = [name |-> "getAccountList", id |-> "",
                                amount |-> 0, pageSize |-> pageSize]]
    /\ accountDetails' = [accountDetails EXCEPT ![c] = [found |-> TRUE] @@ accountResults]
    /\ \E result \in {AccountListResult(accountResults)} :
          Finish(c, "ok", [found |-> TRUE, accounts |-> result.accounts,
                           nextToken |-> result.nextToken])
    /\ UNCHANGED <<table, transaction, rivals, ledger>>

resumeAccountList(c) ==
    /\ Traversing(c)
    /\ returned[c].nextToken # NoToken
    /\ pc' = [pc EXCEPT ![c] = "query"]
    /\ op' = [op EXCEPT ![c] =
                 [ExclusiveStartKey |-> ExclusiveStartKeyOf(returned[c].nextToken)] @@ @]
    /\ UNCHANGED <<table, accountDetails, transaction, outcome, returned, rivals, ledger>>

NextCursor ==
    \/ \E pageSize \in PageSizes, Items \in CursorPages,
          LastEvaluatedKey \in CursorKeys \cup {NoKey} :
          /\ answerAccountList("c2", pageSize,
                               [Items |-> Items, LastEvaluatedKey |-> LastEvaluatedKey])
          /\ UNCHANGED <<calls, race, stream>>
    \/ resumeAccountList("c2") /\ UNCHANGED <<calls, race, stream>>
    \/ return("c2") /\ UNCHANGED <<calls, race, stream>>

SpecCursor == Init /\ [][NextCursor]_vars

(***************************************************************************)
(* SpecReads: caller c1 creates, credits and debits accounts while caller  *)
(* c2 reads: one account through getAccount, or the list page by page.     *)
(***************************************************************************)
NextReads ==
    \/ \E id \in ListIds, auth0Id \in Auth0Ids, email \in Emails :
          /\ \A d \in Callers : ~Traversing(d)
          /\ create("c1", id, auth0Id, email) /\ UNCHANGED <<calls, race, stream>>
    \/ \E id \in ListIds, amount \in BuildAmounts :
          /\ Cardinality(Mutations(table)) < MaxListMutations
          /\ credit("c1", id, amount) /\ UNCHANGED <<calls, race, stream>>
    \/ \E id \in ListIds, amount \in BuildAmounts :
          /\ Cardinality(Mutations(table)) < MaxListMutations
          /\ debit("c1", id, amount) /\ UNCHANGED <<calls, race, stream>>
    \/ \E id \in ListIds : getAccount("c2", id) /\ UNCHANGED <<calls, race, stream>>
    \/ \E pageSize \in PageSizes :
          listAccounts("c2", pageSize) /\ UNCHANGED <<calls, race, stream>>
    \/ nextAccounts("c2") /\ UNCHANGED <<calls, race, stream>>
    \/ \E c \in Callers : send(c) /\ UNCHANGED <<calls, race, stream>>
    \/ \E c \in Callers : reread(c) /\ UNCHANGED <<calls, race, stream>>
    \/ \E c \in Callers : return(c) /\ UNCHANGED <<calls, race, stream>>

SpecReads == InitListing /\ [][NextReads]_vars

(***************************************************************************)
(* The change feed and the forwarder                                       *)
(*                                                                         *)
(* The table's stream carries one record per item written, in the order of *)
(* the writes, with the new image of the item in attribute-value form      *)
(* (numbers as decimal strings).  The event source hands the forwarder the *)
(* records after its checkpoint in batches of at most BatchSize, the same  *)
(* batch again when the invocation failed.  PutEvents either fails as a    *)
(* whole or answers with the entries it did not accept.                    *)
(***************************************************************************)
NumericAttributes == {"version", "availableTokens", "amount"}

MinusChar == <<45>>

NumberString(n) == IF n < 0 THEN MinusChar \o Digits(-n) ELSE Digits(n)

RECURSIVE NumberOfDigits(_)
NumberOfDigits(digits) ==
    IF digits = <<>> THEN 0
    ELSE 10 * NumberOfDigits(SubSeq(digits, 1, Len(digits) - 1)) + digits[Len(digits)]

NumberOf(str) ==
    IF SubSeq(str, 1, 1) = MinusChar THEN -NumberOfDigits(Tail(str))
    ELSE NumberOfDigits(str)

marshall(item) ==
    [a \in DOMAIN item |->
        IF a \in NumericAttributes THEN [N |-> NumberString(item[a])]
        ELSE [S |-> item[a]]]

unmarshall(image) ==
    [a \in DOMAIN image |->
        IF "N" \in DOMAIN image[a] THEN NumberOf(image[a].N) ELSE image[a].S]

\* JSON text as the literal of each member: numbers in decimal, strings quoted.
JSONstringify(data) ==
    [a \in DOMAIN data |->
        IF a \in NumericAttributes THEN <<"number", NumberString(data[a])>>
        ELSE <<"string", data[a]>>]

\* Item is the item as it was written, kept beside the record for comparison.
StreamRecord(item) ==
    [eventSourceARN |-> "arn",
     dynamodb |-> [NewImage |-> marshall(item)],
     Item |-> item]

Capture(strm, tbl, txn) ==
    IF TransactWriteAccepted(tbl, txn)
    THEN [strm EXCEPT !.feed = @ \o [k \in 1..Len(txn) |-> StreamRecord(txn[k].Item)]]
    ELSE strm

\* Only the first record of the batch is mapped.
mappedEventsOfFirstRecord(Records) ==
    [k \in 1..1 |->
        LET data == unmarshall(Records[k].dynamodb.NewImage)
        IN  [Detail |-> JSONstringify(data),
             DetailType |-> data.type,
             Source |-> "myapp.accounts",
             EventBusName |-> "EVENT_BUS_NAME",
             Resources |-> <<Records[k].eventSourceARN>>]]

mappedEvents(Records) ==
    [k \in 1..Len(Records) |->
        LET data == unmarshall(Records[k].dynamodb.NewImage)
        IN  [Detail |-> JSONstringify(data),
             DetailType |-> IF "type" \in DOMAIN data THEN data.type ELSE "undefined",
             Source |-> "myapp.accounts",
             EventBusName |-> "EVENT_BUS_NAME",
             Resources |-> <<Records[k].eventSourceARN>>]]

Pending == Len(stream.feed) - stream.checkpoint

deliver(n) ==
    /\ stream.batch = 0
    /\ n <= BatchSize
    /\ n <= Pending
    /\ stream' = [stream EXCEPT !.batch = n]

Records == SubSeq(stream.feed, stream.checkpoint + 1, stream.checkpoint + stream.batch)

\* client.send rejects: the invocation fails and the batch stays where it is.
handlerFails ==
    /\ stream.batch > 0
    /\ stream' = [stream EXCEPT
                     !.last = [from |-> stream.checkpoint, size |-> stream.batch,
                               request |-> mappedEvents(Records), result |-> "failed"]]

\* client.send resolves with the entries at the positions of Failed marked
\* failed in the response; the handler returns without reading the response.
handlerReturns(Failed) ==
    /\ stream.batch > 0
    /\ \E Entries \in {mappedEvents(Records)} :
          /\ Failed \subseteq 1..Len(Entries)
          /\ stream' = [stream EXCEPT
                !.bus = @ \cup {Entries[k] : k \in (1..Len(Entries)) \ Failed},
                !.checkpoint = @ + stream.batch,
                !.batch = 0,
                !.last = [from |-> stream.checkpoint, size |-> stream.batch,
                          request |-> Entries, result |-> "ok"]]

\* The responses taken into account: no entry failed, or one entry failed.
FailedSets == {{}} \cup {{k} : k \in 1..BatchSize}

(***************************************************************************)
(* SpecStream: one caller creates, credits and debits the account while    *)
(* the table's stream records every accepted write and the forwarder is    *)
(* invoked on it.  SpecStreamFair adds that a pending batch is handed over *)
(* and that an invocation is eventually answered by the bus.               *)
(***************************************************************************)
Write(c) ==
    /\ send(c)
    /\ stream' = Capture(stream, table, transaction[c])
    /\ UNCHANGED <<calls, race>>

NextStream ==
    \/ \E id \in Ids, auth0Id \in Auth0Ids, email \in Emails :
          /\ Len(stream.feed) < MaxStreamRecords
          /\ create("c1", id, auth0Id, email) /\ UNCHANGED <<calls, race, stream>>
    \/ \E id \in Ids, amount \in Amounts :
          /\ Len(stream.feed) < MaxStreamRecords
          /\ credit("c1", id, amount) /\ UNCHANGED <<calls, race, stream>>
    \/ \E id \in Ids, amount \in Amounts :
          /\ Len(stream.feed) < MaxStreamRecords
          /\ debit("c1", id, amount) /\ UNCHANGED <<calls, race, stream>>
    \/ Write("c1")
    \/ reread("c1") /\ UNCHANGED <<calls, race, stream>>
    \/ return("c1") /\ UNCHANGED <<calls, race, stream>>
    \/ /\ \E n \in 1..BatchSize : deliver(n)
       /\ UNCHANGED <<table, pc, op, accountDetails, transaction, outcome, returned,
                      rivals, ledger, calls, race>>
    \/ /\ handlerFails
       /\ UNCHANGED <<table, pc, op, accountDetails, transaction, outcome, returned,
                      rivals, ledger, calls, race>>
    \/ /\ \E Failed \in FailedSets : handlerReturns(Failed)
       /\ UNCHANGED <<table, pc, op, accountDetails, transaction, outcome, returned,
                      rivals, ledger, calls, race>>

SpecStream == Init /\ [][NextStream]_vars

Ledger == <<table, pc, op, accountDetails, transaction, outcome, returned, rivals,
            ledger, calls, race>>

SpecStreamFair ==
    /\ SpecStream
    /\ WF_vars((\E n \in 1..BatchSize : deliver(n)) /\ UNCHANGED Ledger)
    /\ SF_vars((\E Failed \in FailedSets : handlerReturns(Failed)) /\ UNCHANGED Ledger)

(***************************************************************************)
(* SpecStreamOfListItems: SpecStream with the revision of createAccount    *)
(* that writes the account list item; the stream records the list item as  *)
(* it records the events.                                                  *)
(***************************************************************************)
NextStreamOfListItems ==
    \/ \E id \in Ids, auth0Id \in Auth0Ids, email \in Emails :
          /\ Len(stream.feed) < MaxStreamRecords
          /\ createWithListItem("c1", id, auth0Id, email)
          /\ UNCHANGED <<calls, race, stream>>
    \/ \E id \in Ids, amount \in Amounts :
          /\ Len(stream.feed) < MaxStreamRecords
          /\ credit("c1", id, amount) /\ UNCHANGED <<calls, race, stream>>
    \/ \E id \in Ids, amount \in Amounts :
          /\ Len(stream.feed) < MaxStreamRecords
          /\ debit("c1", id, amount) /\ UNCHANGED <<calls, race, stream>>
    \/ Write("c1")
    \/ reread("c1") /\ UNCHANGED <<calls, race, stream>>
    \/ return("c1") /\ UNCHANGED <<calls, race, stream>>
    \/ (\E n \in 1..BatchSize : deliver(n)) /\ UNCHANGED Ledger
    \/ handlerFails /\ UNCHANGED Ledger
    \/ (\E Failed \in FailedSets : handlerReturns(Failed)) /\ UNCHANGED Ledger

SpecStreamOfListItems == Init /\ [][NextStreamOfListItems]_vars

(***************************************************************************)
(* The forwarder of main.stream.ts: the same mapping with the type tag      *)
(* fixed.  SpecForwarders is SpecStream with the forwarder the deployment   *)
(* put on the stream, either one, chosen at the start (stream.handler).     *)
(***************************************************************************)
\* The type tag taken from the item after all.
mappedEventsOfMainByType(eventRecords) ==
    [k \in 1..Len(eventRecords) |->
        [Detail |-> JSONstringify(unmarshall(eventRecords[k].dynamodb.NewImage)),
         DetailType |-> unmarshall(eventRecords[k].dynamodb.NewImage).type,
         Source |-> "myapp.accounts",
         EventBusName |-> "EVENT_BUS_NAME",
         Resources |-> <<eventRecords[k].eventSourceARN>>]]

mappedEventsOfMain(eventRecords) ==
    [k \in 1..Len(eventRecords) |->
        [Detail |-> JSONstringify(unmarshall(eventRecords[k].dynamodb.NewImage)),
         DetailType |-> "CREATED",
         Source |-> "myapp.accounts",
         EventBusName |-> "EVENT_BUS_NAME",
         Resources |-> <<eventRecords[k].eventSourceARN>>]]

mainHandlerFails ==
    /\ stream.batch > 0
    /\ stream' = [stream EXCEPT
                     !.last = [from |-> stream.checkpoint, size |-> stream.batch,
                               request |-> mappedEventsOfMain(Records),
                               result |-> "failed"]]

mainHandlerReturns(Failed) ==
    /\ stream.batch > 0
    /\ \E Entries \in {mappedEventsOfMain(Records)} :
          /\ Failed \subseteq 1..Len(Entries)
          /\ stream' = [stream EXCEPT
                !.bus = @ \cup {Entries[k] : k \in (1..Len(Entries)) \ Failed},
                !.checkpoint = @ + stream.batch,
                !.batch = 0,
                !.last = [from |-> stream.checkpoint, size |-> stream.batch,
                          request |-> Entries, result |-> "ok"]]

Handlers == {"account.stream", "main.stream"}

InitForwarders ==
    /\ table = {}
    /\ pc = [c \in Callers |-> "idle"]
    /\ op = [c \in Callers |-> NoOp]
    /\ accountDetails = [c \in Callers |-> Null]
    /\ transaction = [c \in Callers |-> <<>>]
    /\ outcome = [c \in Callers |-> "none"]
    /\ returned = [c \in Callers |-> Null]
    /\ rivals = [c \in Callers |-> {}]
    /\ ledger = [id \in Ids |-> [credited |-> 0, debited |-> 0, appends |-> 0]]
    /\ calls = [debits |-> 0, nonPositive |-> 0, scenario |-> 0]
    /\ race = NoRace
    /\ \E h \in Handlers : stream = [handler |-> h] @@ NoStream

NextForwarders ==
    \/ \E id \in Ids, auth0Id \in Auth0Ids, email \in Emails :
          /\ Len(stream.feed) < MaxStreamRecords
          /\ create("c1", id, auth0Id, email) /\ UNCHANGED <<calls, race, stream>>
    \/ \E id \in Ids, amount \in Amounts :
          /\ Len(stream.feed) < MaxStreamRecords
          /\ credit("c1", id, amount) /\ UNCHANGED <<calls, race, stream>>
    \/ \E id \in Ids, amount \in Amounts :
          /\ Len(stream.feed) < MaxStreamRecords
          /\ debit("c1", id, amount) /\ UNCHANGED <<calls, race, stream>>
    \/ Write("c1")
    \/ reread("c1") /\ UNCHANGED <<calls, race, stream>>
    \/ return("c1") /\ UNCHANGED <<calls, race, stream>>
    \/ /\ \E n \in 1..BatchSize : deliver(n)
       /\ UNCHANGED Ledger
    \/ /\ stream.handler = "account.stream"
       /\ handlerFails
       /\ UNCHANGED Ledger
    \/ /\ stream.handler = "account.stream"
       /\ \E Failed \in FailedSets : handlerReturns(Failed)
       /\ UNCHANGED Ledger
    \/ /\ stream.handler = "main.stream"
       /\ mainHandlerFails
       /\ UNCHANGED Ledger
    \/ /\ stream.handler = "main.stream"
       /\ \E Failed \in FailedSets : mainHandlerReturns(Failed)
       /\ UNCHANGED Ledger

SpecForwarders == InitForwarders /\ [][NextForwarders]_vars

(***************************************************************************)
(* C1. In every reachable state the versions of the events stored for an   *)
(* account are exactly 1..n: ascending from 1, without a gap, and no two   *)
(* events share a version.                                                 *)
(***************************************************************************)
C1_VersionsContiguous ==
    \A id \in Ids : Versions(id) = 1..Cardinality(EventsOf(table, id))

\* An append of a Credit or Debit was refused on an account that holds the
\* events of QueryLimit versions, a Debited event among them.
C1_Witness ==
    \E id \in Ids, c \in Callers :
        /\ outcome[c] = "TransactionCanceled"
        /\ op[c].id = id
        /\ op[c].name # "create"
        /\ OfType(EventsOf(table, id), "DEBITED") # {}
        /\ Cardinality(EventsOf(table, id)) >= QueryLimit

(***************************************************************************)
(* C2. After any sequence of successful Credit and Debit operations on an  *)
(* account, the balance that reconstruction (get) returns is 1 + the sum   *)
(* of the credited amounts - the sum of the debited amounts.               *)
(***************************************************************************)
C2_BalanceIsLedgerSum ==
    \A id \in Ids :
        get(table, id).found =>
            get(table, id).account.availableTokens
                = InitialTokens + ledger[id].credited - ledger[id].debited

(***************************************************************************)
(* C3. When concurrent Create calls for one identifier, or concurrent      *)
(* Credit/Debit calls for one account that read the same version, have     *)
(* all sent their append, exactly one append was accepted, every other one *)
(* was refused, and the store holds the events of the winner only.         *)
(***************************************************************************)
Accepted(c) == pc[c] = "get" \/ (pc[c] = "done" /\ transaction[c] # <<>>)

Refused(c) == pc[c] = "done" /\ outcome[c] = "TransactionCanceled"

ReadVersion(c) ==
    IF accountDetails[c].found THEN accountDetails[c].account.version ELSE 0

WinnerOnly(w) ==
    {i \in EventsOf(table, op[w].id) : i.version > ReadVersion(w)}
        = {put.Item : put \in Range(transaction[w])}

C3_ExactlyOneWinner ==
    \A c \in Callers : \A d \in Callers \ {c} :
        (/\ d \in rivals[c] /\ c \in rivals[d]
         /\ Accepted(c) \/ Refused(c)
         /\ Accepted(d) \/ Refused(d))
        => \/ Accepted(c) /\ Refused(d) /\ WinnerOnly(c)
           \/ Accepted(d) /\ Refused(c) /\ WinnerOnly(d)

(***************************************************************************)
(* C4. The reconstructed balance of an account is never negative.          *)
(***************************************************************************)
C4_BalanceNeverNegative ==
    \A id \in Ids :
        get(table, id).found => get(table, id).account.availableTokens >= 0

(***************************************************************************)
(* C5. A Debit whose amount is greater than the reconstructed balance      *)
(* fails with the insufficient-balance error and issues no append: it      *)
(* never holds a transaction, never reaches the send, and never succeeds.  *)
(***************************************************************************)
C5_OverdraftRejected ==
    \A c \in Callers :
        (/\ op[c].name = "debit"
         /\ accountDetails[c].found
         /\ op[c].amount > accountDetails[c].account.availableTokens)
        => /\ pc[c] = "done"
           /\ outcome[c] = "InsufficientTokens"
           /\ transaction[c] = <<>>

\* A debit was rejected for an amount above the balance it read.
C5_Witness ==
    \E c \in Callers :
        /\ op[c].name = "debit"
        /\ outcome[c] = "InsufficientTokens"
        /\ accountDetails[c].found
        /\ op[c].amount > accountDetails[c].account.availableTokens

(***************************************************************************)
(* C6. When N callers credit one account from the same version and each    *)
(* retries on every refused append, every caller eventually succeeds, and  *)
(* then exactly N Credited events were appended and the reconstructed      *)
(* balance is the starting balance plus the sum of the N amounts.          *)
(***************************************************************************)
RECURSIVE SumOver(_, _)
SumOver(f, S) ==
    IF S = {} THEN 0
    ELSE LET x == CHOOSE y \in S : TRUE IN f[x] + SumOver(f, S \ {x})

AllSucceeded == \A c \in Callers : pc[c] = "done" /\ outcome[c] = "ok"

C6_RetriesConverge ==
    race.active ~>
        /\ AllSucceeded
        /\ Cardinality(OfType(EventsOf(table, race.id), "CREDITED"))
              = race.credited + Cardinality(Callers)
        /\ get(table, race.id).account.availableTokens
              = race.availableTokens + SumOver(race.amount, Callers)

(***************************************************************************)
(* C7. A multi-item append is all-or-nothing: when an item already exists  *)
(* at the key of one of its conditioned items, the send leaves the store   *)
(* unchanged; and whenever a send changes the store, the store then holds  *)
(* every item of the append.                                               *)
(***************************************************************************)
KeyTaken(txn) ==
    \E put \in Range(txn) :
        /\ put.ConditionExpression # ""
        /\ ItemAt(table, put.Item.pk, put.Item.sk) # {}

C7_AppendAllOrNothing ==
    [][\A c \in Callers :
          (pc[c] = "send" /\ pc'[c] # "send") =>
             /\ KeyTaken(transaction[c]) => table' = table
             /\ table' # table =>
                   {put.Item : put \in Range(transaction[c])} \subseteq table']_vars

ListItems == {i \in table : i.pk = <<"account">>}

\* A Create of three items was refused for an account that exists, and a
\* Credit or Debit of another caller was refused too.
C7_Witness ==
    \E c \in Callers, d \in Callers :
        /\ Refused(c) /\ op[c].name = "create"
        /\ Refused(d) /\ op[d].name # "create"
        /\ ListItems # {}

(***************************************************************************)
(* C8. getAccountEvents returns the events of the account that have the    *)
(* highest versions (at most QueryLimit of them), in descending numeric    *)
(* order of version.                                                       *)
(***************************************************************************)
C8_QueryNewestFirst ==
    \A id \in Ids :
        getAccountEvents(table, id)
            = Take(ByVersionDescending(EventsOf(table, id)), QueryLimit)

(***************************************************************************)
(* C9. Reconstruction from the most recent snapshot and the events after   *)
(* it yields the balance of the fold of the whole stored history of the    *)
(* account from version 1.                                                 *)
(***************************************************************************)
C9_SnapshotFoldIsFullFold ==
    \A id \in Ids :
        (Exists(id) /\ get(table, id).found) =>
            get(table, id).account.availableTokens = FullFold(EventsOf(table, id))

(***************************************************************************)
(* C10. Every Snapshot event stored at version V carries the balance of    *)
(* the fold of the events of its account that have a version <= V.         *)
(***************************************************************************)
C10_SnapshotReflectsFold ==
    \A id \in Ids :
        \A s \in OfType(EventsOf(table, id), "SNAPSHOT") :
            /\ Exists(id)
            /\ s.availableTokens
                 = FullFold({i \in EventsOf(table, id) : i.version <= s.version})

\* A snapshot is stored below Credited and Debited events, on an account
\* that holds the events of QueryLimit versions.
C10_Witness ==
    \E id \in Ids :
        /\ OfType(EventsOf(table, id), "SNAPSHOT") # {}
        /\ OfType(EventsOf(table, id), "CREDITED") # {}
        /\ OfType(EventsOf(table, id), "DEBITED") # {}
        /\ Cardinality(EventsOf(table, id)) >= QueryLimit

(***************************************************************************)
(* C12. In every reachable state at most SnapshotThreshold non-snapshot    *)
(* events are stored after the most recent Snapshot of an account, and a   *)
(* reconstruction folds at most SnapshotThreshold events.                  *)
(***************************************************************************)
SinceLastSnapshot(id) ==
    {i \in EventsOf(table, id) :
        /\ i.type # "SNAPSHOT"
        /\ \A s \in OfType(EventsOf(table, id), "SNAPSHOT") : s.version < i.version}

C12_FoldBounded ==
    \A id \in Ids :
        /\ OfType(EventsOf(table, id), "SNAPSHOT") # {}
              => Cardinality(SinceLastSnapshot(id)) <= SnapshotThreshold
        /\ LET details == get(table, id)
           IN  details.found
                  => Len(details.itemsSinceSnapshot) <= SnapshotThreshold

\* An account that refuses a further Credit holds eight events after its
\* snapshot, of which the reconstruction folds seven.
C12_Witness ==
    \E id \in Ids, c \in Callers :
        /\ Refused(c) /\ op[c].name = "credit" /\ op[c].id = id
        /\ Cardinality(SinceLastSnapshot(id)) = QueryLimit - 2
        /\ Len(get(table, id).itemsSinceSnapshot) = QueryLimit - 3

(***************************************************************************)
(* C13. For every account that was created, the page getAccountEvents      *)
(* returns holds a Snapshot event in every reachable state: get never      *)
(* returns null for it.                                                    *)
(***************************************************************************)
C13_SnapshotInPage ==
    \A id \in Ids :
        Exists(id) =>
            /\ OfType(Range(getAccountEvents(table, id)), "SNAPSHOT") # {}
            /\ get(table, id).found

\* The page of an account is full and the reconstruction finds its snapshot.
C13_Witness ==
    \E id \in Ids :
        /\ Exists(id)
        /\ Len(getAccountEvents(table, id)) = QueryLimit
        /\ get(table, id).found

(***************************************************************************)
(* C14. A Credit or Debit invoked while no other operation is in flight    *)
(* never ends with a refused append (a version conflict).                  *)
(***************************************************************************)
C14_NoConflictWithoutRival ==
    \A c \in Callers :
        (/\ op[c].name \in {"credit", "debit"}
         /\ \A d \in Callers \ {c} : pc[d] = "idle")
        => outcome[c] # "TransactionCanceled"

(***************************************************************************)
(* C16. The step that accepts the append of a Create leaves exactly two    *)
(* events of the account in the table: a Created event at version 1 with   *)
(* InitialTokens and a Snapshot at version 2 with the same id, auth0Id,    *)
(* email and balance; reconstruction on that table returns the balance     *)
(* InitialTokens, version 2 and no item since the snapshot.                *)
(***************************************************************************)
CreatedPair(events) ==
    \E cr \in events, sn \in events :
        /\ cr.type = "CREATED" /\ cr.version = 1
        /\ cr.availableTokens = InitialTokens
        /\ sn.type = "SNAPSHOT" /\ sn.version = 2
        /\ sn.id = cr.id /\ sn.auth0Id = cr.auth0Id /\ sn.email = cr.email
        /\ sn.availableTokens = cr.availableTokens

C16_CreateStoresPair ==
    [][\A c \in Callers :
          (pc[c] = "send" /\ op[c].name = "create" /\ pc'[c] = "get") =>
             /\ Cardinality(EventsOf(table', op[c].id)) = 2
             /\ CreatedPair(EventsOf(table', op[c].id))
             /\ LET details == get(table', op[c].id)
                IN  /\ details.found
                    /\ details.account.availableTokens = InitialTokens
                    /\ details.account.version = 2
                    /\ details.itemsSinceSnapshot = <<>>]_vars

\* The append of a Create was accepted and its caller has not read yet.
C16_Witness ==
    \E c \in Callers :
        /\ pc[c] = "get" /\ op[c].name = "create"
        /\ Cardinality(EventsOf(table, op[c].id)) = 2

(***************************************************************************)
(* C17. In every reachable state an account with stored events has exactly *)
(* one Created event, and that event is at version 1.                      *)
(***************************************************************************)
C17_OneCreatedAtVersionOne ==
    \A id \in Ids :
        EventsOf(table, id) # {} =>
            /\ Cardinality(OfType(EventsOf(table, id), "CREATED")) = 1
            /\ \A i \in OfType(EventsOf(table, id), "CREATED") : i.version = 1

\* A repeated Create was refused on an account that holds Credited and
\* Debited events.
C17_Witness ==
    \E id \in Ids, c \in Callers :
        /\ Refused(c) /\ op[c].name = "create" /\ op[c].id = id
        /\ OfType(EventsOf(table, id), "CREDITED") # {}
        /\ OfType(EventsOf(table, id), "DEBITED") # {}

(***************************************************************************)
(* C18. The send of a Create whose identifier already has stored events is *)
(* refused and leaves the whole table, events and account list items, as   *)
(* it was.                                                                 *)
(***************************************************************************)
C18_CreateOnExistingRefused ==
    [][\A c \in Callers :
          (/\ pc[c] = "send" /\ op[c].name = "create" /\ pc'[c] # "send"
           /\ EventsOf(table, op[c].id) # {})
          => /\ table' = table
             /\ pc'[c] = "done"
             /\ outcome'[c] = "TransactionCanceled"]_vars

\* A Create was refused on an account that is listed and holds a Credited event.
C18_Witness ==
    \E c \in Callers :
        /\ Refused(c) /\ op[c].name = "create"
        /\ OfType(EventsOf(table, op[c].id), "CREDITED") # {}
        /\ ListItems # {}

(***************************************************************************)
(* C19. Events are append-only: no step removes an event item of the table *)
(* or changes its content.                                                 *)
(***************************************************************************)
C19_AppendOnly ==
    [][\A i \in table : i.pk[1] = "event" => i \in table']_vars

\* A caller lost a race against a rival whose append, of another amount, was
\* accepted at the same version.
C19_Witness ==
    \E c \in Callers, d \in Callers :
        /\ Refused(c) /\ Accepted(d)
        /\ d \in rivals[c]
        /\ op[c].name \in {"credit", "debit"}
        /\ op[c].amount # op[d].amount

(***************************************************************************)
(* C20. Every Credited and Debited event of the table has an amount > 0.   *)
(***************************************************************************)
C20_AmountsPositive ==
    \A id \in Ids : \A i \in EventsOf(table, id) :
        i.type \in {"CREDITED", "DEBITED"} => i.amount > 0

(***************************************************************************)
(* C11. The append a Credit or Debit builds holds a Snapshot exactly when  *)
(* the reconstruction it read found SnapshotThreshold or more items since  *)
(* the snapshot.  Then the Snapshot goes to version current + 1 with the   *)
(* balance read, and the mutating event to version current + 2, in one     *)
(* transaction; otherwise the mutating event alone goes to version         *)
(* current + 1.  An item goes to version v when its version is v and its   *)
(* key is the key of version v.                                            *)
(***************************************************************************)
WrittenAt(item, v) ==
    /\ item.version = v
    /\ item.pk = <<"event", item.id>>
    /\ item.sk = <<"event", Digits(v)>>

MutationType(name) == IF name = "credit" THEN "CREDITED" ELSE "DEBITED"

NinthCredit(at) == calls.scenario = Len(Scenario) /\ pc["c1"] = at

C15_ScenarioSnapshots ==
    /\ NinthCredit("send") =>
          /\ Len(accountDetails["c1"].itemsSinceSnapshot) = 9
          /\ Len(transaction["c1"]) = 2
    /\ NinthCredit("done") =>
          /\ outcome["c1"] = "ok"
          /\ returned["c1"].account.availableTokens = 11
          /\ returned["c1"].account.version = 13
          /\ Len(returned["c1"].itemsSinceSnapshot) = 1
          /\ \E s \in OfType(EventsOf(table, ScenarioId), "SNAPSHOT") :
                s.version = 12 /\ s.availableTokens = 10
          /\ \E e \in OfType(EventsOf(table, ScenarioId), "CREDITED") :
                e.version = 13 /\ e.amount = 1

(***************************************************************************)
(* C24. A Credit or Debit on an account identifier without reconstructable *)
(* state ends in a failure: the invocation never completes with the empty  *)
(* result.                                                                 *)
(***************************************************************************)
C24_AbsentAccountFails ==
    \A c \in Callers :
        (pc[c] = "done" /\ op[c].name \in {"credit", "debit"}) => outcome[c] # "null"

(***************************************************************************)
(* C25. getAccount on an identifier without reconstructable state          *)
(* completes with the empty result and never ends in an error.             *)
(***************************************************************************)
C25_GetAccountAbsentIsNull ==
    \A c \in Callers :
        (pc[c] = "done" /\ op[c].name = "getAccount" /\ ~returned[c].found)
            => outcome[c] = "null"

(***************************************************************************)
(* C26. An invocation of Credit or Debit makes at most one append attempt: *)
(* the attempt follows the read of the invocation, a refused attempt ends  *)
(* the invocation at once with the cancellation, leaving the table as it   *)
(* was, and a finished invocation only returns.                            *)
(***************************************************************************)
Mutating(c) == op[c].name \in {"credit", "debit"}

C26_SingleAttempt ==
    [][\A c \in Callers :
          /\ (pc'[c] = "send" /\ pc[c] # "send") => pc[c] = "idle"
          /\ (Mutating(c) /\ pc[c] = "send" /\ pc'[c] # "send"
                 /\ ~TransactWriteAccepted(table, transaction[c]))
                => /\ pc'[c] = "done"
                   /\ outcome'[c] = "TransactionCanceled"
                   /\ table' = table
          /\ (Mutating(c) /\ pc[c] = "done" /\ pc'[c] # "done")
                => pc'[c] = "idle" /\ table' = table]_vars

C26_Witness ==
    \E c \in Callers :
        /\ pc[c] = "done" /\ Mutating(c) /\ outcome[c] = "TransactionCanceled"
        /\ transaction[c] = <<>>

(***************************************************************************)
(* C27. The failures of Create, Credit and Debit are distinguishable by    *)
(* kind: two finished invocations that failed for causes of different      *)
(* kinds (identifier collision, version conflict, insufficient balance,    *)
(* absent account) do not surface the same outcome.                        *)
(***************************************************************************)
Failed(c) == pc[c] = "done" /\ outcome[c] # "ok"

FailureKind(c) ==
    IF op[c].name = "create" THEN "AlreadyExists"
    ELSE IF outcome[c] = "InsufficientTokens" THEN "InsufficientBalance"
    ELSE IF outcome[c] = "TransactionCanceled" THEN "VersionConflict"
    ELSE "NotFound"

C27_FailureKindsDistinct ==
    \A c, d \in Callers :
        (Failed(c) /\ Failed(d) /\ FailureKind(c) # FailureKind(d))
            => outcome[c] # outcome[d]

(***************************************************************************)
(* C21. A listing entry, once written, stays in the table as it is: no     *)
(* step deletes it, replaces it or changes its content, the Create of      *)
(* another account with the same email included.                           *)
(***************************************************************************)
ListingEntries(tbl) == {i \in tbl : i.pk = <<"account">> \/ "gsi_pk" \in DOMAIN i}

C21_ListingEntryKept ==
    [][\A i \in ListingEntries(table) : i \in ListingEntries(table')]_vars

(***************************************************************************)
(* C22. A traversal with page size 3 that follows the returned cursors,    *)
(* with no Create in between, ends with a page without a cursor after at   *)
(* most one page more than the accounts fill, and its concatenated pages   *)
(* hold every created account exactly once, in the order of the listing's  *)
(* sort key.                                                               *)
(***************************************************************************)
CreatedIds == {id \in ListIds : OfType(EventsOf(table, id), "CREATED") # {}}

ListingOrder ==
    LET entries == SortAscending(ListingEntries(table))
    IN  [k \in 1..Len(entries) |-> entries[k].id]

C22_TraversalComplete ==
    \A c \in Callers :
        (Traversing(c) /\ op[c].pageSize = 3) =>
            /\ returned[c].pages <= (Cardinality(CreatedIds) \div 3) + 1
            /\ returned[c].nextToken = NoToken =>
                  /\ Len(returned[c].seen) = Cardinality(CreatedIds)
                  /\ Range(returned[c].seen) = CreatedIds
                  /\ returned[c].seen = ListingOrder

(***************************************************************************)
(* C23. In every reachable state an account has a listing entry exactly    *)
(* when its Created event is stored.                                       *)
(***************************************************************************)
C23_ListedIffCreated ==
    \A id \in ListIds :
        (\E e \in ListingEntries(table) : e.id = id)
            <=> OfType(EventsOf(table, id), "CREATED") # {}

(***************************************************************************)
(* C28. The request of a forwarder invocation holds one entry per record   *)
(* of the batch it was handed, in the order of the records, each entry     *)
(* with the source 'myapp.accounts' and, as its detail, every attribute of *)
(* the item whose write the record reports; a batch with the record of a   *)
(* Snapshot and the record of a Credited event gives two entries.          *)
(***************************************************************************)
LastRecords ==
    SubSeq(stream.feed, stream.last.from + 1, stream.last.from + stream.last.size)

C28_EntryPerRecord ==
    stream.last.size > 0 =>
        /\ Len(stream.last.request) = stream.last.size
        /\ \A k \in 1..stream.last.size :
              /\ stream.last.request[k].Source = "myapp.accounts"
              /\ stream.last.request[k].Detail = JSONstringify(LastRecords[k].Item)

\* The bus accepted a batch in which the record of a Snapshot is followed by
\* the record of a Credited event with a negative amount.
C28_Witness ==
    /\ stream.last.result = "ok"
    /\ \E k \in 1..(stream.last.size - 1) :
          /\ stream.last.request[k].DetailType = "SNAPSHOT"
          /\ stream.last.request[k + 1].DetailType = "CREDITED"
          /\ LastRecords[k + 1].Item.amount < 0
          /\ {stream.last.request[k], stream.last.request[k + 1]} \subseteq stream.bus

(***************************************************************************)
(* C29. A forwarder invocation never completes successfully while an entry *)
(* of its batch was not accepted by the bus: the entry of every record     *)
(* before the checkpoint is on the bus.                                    *)
(***************************************************************************)
Published(k) == mappedEvents(<<stream.feed[k]>>)[1] \in stream.bus

C29_NoSilentDrop == \A k \in 1..stream.checkpoint : Published(k)

(***************************************************************************)
(* C30. Every event committed to the table is eventually published on the  *)
(* event bus, given that a pending batch is handed to the forwarder, that  *)
(* a failed invocation gets its batch again and that the bus eventually    *)
(* answers.                                                                *)
(***************************************************************************)
C30_EventuallyPublished ==
    \A k \in 1..MaxStreamRecords :
        (Len(stream.feed) >= k) ~> (Len(stream.feed) >= k /\ Published(k))

(***************************************************************************)
(* C31. The type tag of every entry of a forwarder request: with the       *)
(* forwarder of account.stream.ts it is the type of the event whose write  *)
(* the record reports, one of CREATED, CREDITED, DEBITED and SNAPSHOT;     *)
(* with the forwarder of main.stream.ts it is 'CREATED' whatever the type  *)
(* of the event.                                                           *)
(***************************************************************************)
Kinds == {"CREATED", "CREDITED", "DEBITED", "SNAPSHOT"}

C31_TypeTag ==
    \A k \in 1..stream.last.size :
        /\ LastRecords[k].Item.type \in Kinds
        /\ stream.last.request[k].DetailType =
              IF stream.handler = "main.stream" THEN "CREATED"
              ELSE LastRecords[k].Item.type

\* The forwarder of main.stream.ts published the entries of a Snapshot, a
\* Credited and a Debited event.
C31_Witness ==
    /\ stream.handler = "main.stream"
    /\ stream.last.result = "ok"
    /\ \A kind \in Kinds \ {"CREATED"} :
          \E k \in 1..stream.last.size :
             /\ LastRecords[k].Item.type = kind
             /\ stream.last.request[k] \in stream.bus

(***************************************************************************)
(* C32. getAccountList returns a token exactly when the query answered     *)
(* with a LastEvaluatedKey and a page that is not empty, and the key the   *)
(* next call decodes from that token (base64, then JSON.parse) is the      *)
(* LastEvaluatedKey the query answered with.                               *)
(***************************************************************************)
C32_CursorRoundTrips ==
    \A c \in Callers :
        /\ (Traversing(c) /\ accountDetails[c].found) =>
              (returned[c].nextToken # NoToken
                 <=> /\ accountDetails[c].LastEvaluatedKey # NoKey
                     /\ Len(accountDetails[c].Items) > 0)
        /\ pc[c] = "query" =>
              op[c].ExclusiveStartKey = accountDetails[c].LastEvaluatedKey

\* A call resumes from a key of the index whose strings hold a quote and a
\* character outside ASCII.
C32_Witness ==
    \E c \in Callers :
        /\ pc[c] = "query"
        /\ "gsi_sk" \in DOMAIN op[c].ExclusiveStartKey
        /\ op[c].ExclusiveStartKey.gsi_sk.S = <<233, 64>>
        /\ op[c].ExclusiveStartKey.sk.S = <<101, 34>>

C34_VersionIsHighest ==
    \A id \in Ids :
        get(table, id).found =>
            \A v \in Versions(id) : v <= get(table, id).account.version

(***************************************************************************)
(* C35. The state a successful Credit or Debit returns includes the event  *)
(* the invocation appended: its version is at least the version of that    *)
(* event, and, no other operation being in flight, its balance is the      *)
(* balance the invocation read plus (Credit) or minus (Debit) the amount.  *)
(***************************************************************************)
AppendedVersion(c) == transaction[c][Len(transaction[c])].Item.version

C35_ReturnsUpdatedState ==
    \A c \in Callers :
        (pc[c] = "done" /\ Mutating(c) /\ outcome[c] = "ok") =>
            /\ returned[c].account.version >= AppendedVersion(c)
            /\ returned[c].account.availableTokens =
                  accountDetails[c].account.availableTokens
                    + (IF op[c].name = "credit" THEN op[c].amount ELSE -op[c].amount)

(***************************************************************************)
(* C36. Reconstruction finds nothing when the page of getAccountEvents     *)
(* holds no Snapshot, the empty page included; otherwise it folds exactly  *)
(* the events of the page with a version above that of the newest Snapshot *)
(* of the page, in ascending order of version, adding the amount of a      *)
(* Credited event and subtracting the amount of a Debited one.             *)
(***************************************************************************)
NewestSnapshot(page) ==
    CHOOSE s \in OfType(Range(page), "SNAPSHOT") :
        \A t \in OfType(Range(page), "SNAPSHOT") : t.version <= s.version

NewerThan(page, s) == {i \in Range(page) : i.version > s.version}

C36_FoldsNewerThanSnapshot ==
    \A id \in Ids :
        LET page == getAccountEvents(table, id)
            details == get(table, id)
        IN  IF OfType(Range(page), "SNAPSHOT") = {} THEN ~details.found
            ELSE LET s == NewestSnapshot(page)
                     since == details.itemsSinceSnapshot
                 IN  /\ details.found
                     /\ Range(since) = NewerThan(page, s)
                     /\ \A k \in 1..(Len(since) - 1) :
                           since[k].version < since[k + 1].version
                     /\ details.account.availableTokens =
                           s.availableTokens
                             + SumOfAmounts(OfType(NewerThan(page, s), "CREDITED"))
                             - SumOfAmounts(OfType(NewerThan(page, s), "DEBITED"))

(***************************************************************************)
(* C37. Every entry of a forwarder request reports the write of a ledger   *)
(* event and has a type tag among CREATED, CREDITED, DEBITED and SNAPSHOT, *)
(* and the request for the batch that holds all the records of one Create  *)
(* has two entries: none for the account list item.                        *)
(***************************************************************************)
C37_EntriesAreEvents ==
    /\ \A k \in 1..stream.last.size :
          /\ LastRecords[k].Item.pk[1] = "event"
          /\ stream.last.request[k].DetailType \in Kinds
    /\ (/\ stream.last.size > 0
        /\ stream.last.from = 0
        /\ stream.last.size = Len(stream.feed)
        /\ \A id \in Ids : Cardinality(EventsOf(table, id)) = 2)
       => Len(stream.last.request) = 2

(***************************************************************************)
(* C38. The identity of an account does not change: every Snapshot stored  *)
(* for the account, every Snapshot an operation is about to put and the    *)
(* reconstructed account carry the id, the auth0Id and the email of the    *)
(* Created event.                                                          *)
(***************************************************************************)
Attribute(item, name) == IF name \in DOMAIN item THEN item[name] ELSE "undefined"

Identity(item) ==
    [id |-> Attribute(item, "id"),
     auth0Id |-> Attribute(item, "auth0Id"),
     email |-> Attribute(item, "email")]

C38_IdentityKept ==
    \A id \in Ids : \A created \in OfType(EventsOf(table, id), "CREATED") :
        /\ created.id = id
        /\ \A s \in OfType(EventsOf(table, id), "SNAPSHOT") :
              Identity(s) = Identity(created)
        /\ get(table, id).found => Identity(get(table, id).account) = Identity(created)
        /\ \A c \in Callers :
              (pc[c] = "send" /\ op[c].id = id) =>
                  \A put \in Range(transaction[c]) :
                      put.Item.type = "SNAPSHOT" => Identity(put.Item) = Identity(created)

\* A Credit is about to put the Snapshot it built from an account folded over
\* nine events.
C38_Witness ==
    \E c \in Callers :
        /\ pc[c] = "send" /\ op[c].name = "credit"
        /\ Len(accountDetails[c].itemsSinceSnapshot) = SnapshotThreshold
        /\ Len(transaction[c]) = 2
        /\ transaction[c][1].Item.type = "SNAPSHOT"
        /\ transaction[c][1].Item.version = accountDetails[c].account.version + 1

(***************************************************************************)
(* C39. From the same history and with no other writer, the Credit or      *)
(* Debit that is handed the state and the Credit or Debit that reads for   *)
(* itself, invoked with the same amount, build appends of the same events  *)
(* at the same versions, with a Snapshot in both or in neither, and the    *)
(* appends are both accepted or both refused.                              *)
(***************************************************************************)
EventsPut(c) ==
    [k \in 1..Len(transaction[c]) |->
        [type |-> transaction[c][k].Item.type,
         version |-> transaction[c][k].Item.version,
         amount |-> amountOf(transaction[c][k].Item),
         id |-> transaction[c][k].Item.id]]

SameCall ==
    /\ op["c1"].name \in {"credit", "debit"}
    /\ op["c1"].name = op["c2"].name
    /\ op["c1"].amount = op["c2"].amount

C39_VariantsAgree ==
    SameCall =>
        /\ (pc["c1"] = "send" /\ pc["c2"] = "send") => EventsPut("c1") = EventsPut("c2")
        /\ (pc["c1"] = "done" /\ pc["c2"] = "done") => outcome["c1"] = outcome["c2"]

(***************************************************************************)
(* C40. Reads write nothing: a step in which getAccount or getAccountList  *)
(* completes, or in which the reconstruction that ends a Create, Credit or *)
(* Debit completes, leaves the table as it was, whatever the step returns. *)
(***************************************************************************)
Reads(c) == op[c].name \in {"getAccount", "getAccountList"}

C40_ReadsWriteNothing ==
    [][\A c \in Callers :
          (\/ pc[c] = "get" /\ pc'[c] = "done"
           \/ pc'[c] = "done" /\ Reads(c)' /\ returned'[c] # returned[c]
           \/ pc[c] = "idle" /\ pc'[c] = "done" /\ Reads(c)')
          => table' = table]_vars

\* A traversal has read its second page from a table that holds an account
\* whose Credit or Debit was accepted.
C40_Witness ==
    /\ Traversing("c2") /\ returned["c2"].pages = 2
    /\ Mutations(table) # {}

====
